---- MODULE Spec2Model ----
(***************************************************************************)
(* State-machine model of the goodfi backend: the escrow lifecycle         *)
(* (routes/escrow.js, routes/milestones-escrow.js) and the loan funding    *)
(* and review handlers (routes/loans.js, routes/verification-lender.js,    *)
(* routes/lender.js) over the Supabase tables they read and write.         *)
(*                                                                         *)
(* Numbers.  Percentages are counted in hundredths of a percent, so the    *)
(* source's 100 (percent) is HundredPercent = 10000 and its tolerance 0.01 *)
(* is 1.  Every total_amount drawn is a multiple of 10000, which makes     *)
(* (percentage / 100) * total_amount an exact integer.  The numbers the    *)
(* model draws are positive; three negative values stand for what is not   *)
(* a number: Unreadable (an input parseFloat cannot read), NaN, and        *)
(* NullNumber (a JSON null in a numeric column).                           *)
(*                                                                         *)
(* Time stamps are abstracted to TRUE (stamped) / FALSE (null).            *)
(***************************************************************************)
EXTENDS Integers, Sequences, FiniteSets, TLC

VARIABLES
    escrows,            \* table escrows: sequence of rows, id = position
    escrow_milestones,  \* table escrow_milestones: sequence of rows, id = position
    escrow_activities,  \* table escrow_activities: sequence of rows (insertion order)
    resp,               \* the response sent last
    approvals,          \* approve requests followed store call by store call
    before,             \* released_amount of every escrow when those requests began
    loans,              \* table loans: sequence of rows, id = position
    loan_status_history,\* table loan_status_history: sequence of rows
    reviews,            \* fund / approve-loan / reject-loan requests, step by step
    accepts,            \* accept requests followed store call by store call
    deposits,           \* deposit requests followed store call by store call
    assets,             \* table assets: sequence of rows, id = position
    tokenizations,      \* the background promise chain started for each asset
    verification_logs   \* table verification_logs: sequence of rows

vars == <<escrows, escrow_milestones, escrow_activities, resp, approvals, before,
          loans, loan_status_history, reviews, accepts, deposits, assets, tokenizations,
          verification_logs>>

\* the asset table and the background work on it
assetVars == <<assets, tokenizations, verification_logs>>

\* the loan tables and the requests on them
loanVars == <<loans, loan_status_history, reviews>>

\* the escrow tables
escrowVars == <<escrows, escrow_milestones, escrow_activities>>

\* what the handlers of the escrow routes, run in one step, leave alone
stepVars ==
    <<approvals, before, loans, loan_status_history, reviews, accepts, deposits, assetVars>>

-----------------------------------------------------------------------------
(* Bounds of the model *)

MaxEscrows == 1
MaxLog == 5

-----------------------------------------------------------------------------
(* Values *)

Null == "null"
Unreadable == 0 - 1
NaN == 0 - 2
NullNumber == 0 - 3

\* an optional field of a request body
None == <<>>
Some(x) == <<x>>

Users == {"u1", "u2", "u3"}
Anon == "anon"
Actors == Users \cup {Anon}

EmailOf(u) == CASE u = "u1" -> "e1" [] u = "u2" -> "e2" [] u = "u3" -> "e3"

Creators == {"u1"}
CustomerEmails == {"e2"}
Totals == {10000}
HundredPercent == 100 * 100
Reasons == {"", "incomplete"}
Evidence == {"ev"}

EscrowIds == 1 .. (MaxEscrows + 1)
\* the milestones field of a create request: missing, empty, one milestone of
\* 100%, the 50/30/20 split, sums of 99.99, 100.01, 99.98 and 100.02, and a
\* milestone whose percentage is not a number
MilestoneInputs ==
    {None, Some(<<>>), Some(<<HundredPercent>>), Some(<<5000, 3000, 2000>>),
     Some(<<4999, 5000>>), Some(<<5001, 5000>>), Some(<<4999, 4999>>),
     Some(<<5001, 5001>>), Some(<<5000, Unreadable>>)}

\* the longest milestone list drawn
MilestonesPerEscrow == 1 + 2
MilestoneIds == 1 .. (MaxEscrows * MilestonesPerEscrow + 1)

-----------------------------------------------------------------------------
(* Number helpers: JavaScript arithmetic on numbers and NaN *)

parseFloat(x) == IF x = Unreadable \/ x = NaN \/ x = NullNumber THEN NaN ELSE x

Plus(a, b) == IF a = NaN \/ b = NaN THEN NaN ELSE a + b

Abs(x) == IF x < 0 THEN -x ELSE x

\* x > y in JavaScript: false as soon as one side is NaN
Greater(a, b) == IF a = NaN \/ b = NaN THEN FALSE ELSE a > b

\* JSON.stringify turns NaN into null
ToJSON(x) == IF x = NaN THEN NullNumber ELSE x

RECURSIVE SumPercentage(_)
SumPercentage(ms) ==
    IF Len(ms) = 0 THEN 0
    ELSE Plus(SumPercentage(SubSeq(ms, 1, Len(ms) - 1)), parseFloat(ms[Len(ms)]))

\* (parseFloat(m.percentage) / 100) * parseFloat(total_amount)
MilestoneAmount(percentage, total_amount) ==
    IF parseFloat(percentage) = NaN \/ parseFloat(total_amount) = NaN THEN NaN
    ELSE (parseFloat(percentage) * parseFloat(total_amount)) \div HundredPercent

-----------------------------------------------------------------------------
(* Store helpers *)

Response(op, code) == [op |-> op, code |-> code]

Activity(escrow_id, milestone_id, user_id, action_type) ==
    [escrow_id |-> escrow_id, milestone_id |-> milestone_id,
     user_id |-> user_id, action_type |-> action_type]

\* authenticate: a request without a valid bearer credential is answered 401
Authenticated(actor) == actor \in Users

\* .update(changes).eq('id', id): the named columns of one row are overwritten
Merge(row, changes) ==
    [k \in DOMAIN row |-> IF k \in DOMAIN changes THEN changes[k] ELSE row[k]]

UpdateRow(table, id, changes) == [table EXCEPT ![id] = Merge(@, changes)]

Exists(table, id) == id \in 1 .. Len(table)

\* the activity log has room for one more row
Room == Len(escrow_activities) < MaxLog

\* faulty variant: the new row takes the place of the latest row
LogActivity_overwrite(row, fail) ==
    escrow_activities' =
        IF fail = "log" THEN escrow_activities
        ELSE IF Len(escrow_activities) = 0 THEN <<row>>
        ELSE [escrow_activities EXCEPT ![Len(escrow_activities)] = row]

\* .from('escrow_activities').insert(row): its error is never looked at
LogActivity(row, fail) ==
    escrow_activities' = IF fail = "log" THEN escrow_activities
                         ELSE Append(escrow_activities, row)

\* the two requests that may be in flight together
Slots == {"a", "b"}

Idle ==
    [pc |-> "idle", actor |-> Anon, id |-> 0, escrow_id |-> 0, amount |-> 0,
     released_amount |-> 0, code |-> 0]

IdleAccept == [pc |-> "idle", actor |-> Anon, id |-> 0]

IdleDeposit == [pc |-> "idle", actor |-> Anon, id |-> 0, total_amount |-> 0]

IdleReview ==
    [pc |-> "idle", kind |-> "none", actor |-> Anon, id |-> 0, status |-> Null,
     notes |-> Null, code |-> 0]

Init ==
    /\ escrows = <<>>
    /\ escrow_milestones = <<>>
    /\ escrow_activities = <<>>
    /\ resp = Response("none", 0)
    /\ approvals = [s \in Slots |-> Idle]
    /\ before = <<>>
    /\ loans = <<>>
    /\ loan_status_history = <<>>
    /\ reviews = [s \in Slots |-> IdleReview]
    /\ accepts = [s \in Slots |-> IdleAccept]
    /\ deposits = [s \in Slots |-> IdleDeposit]
    /\ assets = <<>>
    /\ tokenizations = <<>>
    /\ verification_logs = <<>>

-----------------------------------------------------------------------------
(* POST /api/escrow/create *)

Tolerance == 1

AbsDiff(a, b) == IF a = NaN \/ b = NaN THEN NaN ELSE Abs(a - b)

\* the row the escrows insert stores; deposited_amount and released_amount
\* are not set by the handler and take the column default 0
EscrowRow(smeId, customer_email, total_amount, inviteToken) ==
    [sme_id |-> smeId, customer_id |-> Null, customer_email |-> customer_email,
     total_amount |-> total_amount, deposited_amount |-> 0, released_amount |-> 0,
     status |-> "draft", invite_token |-> inviteToken,
     invite_sent_at |-> FALSE, invite_accepted_at |-> FALSE, deposited_at |-> FALSE]

\* faulty variant: order_index is the 0-based position
MilestoneRow_zero_based(escrow_id, percentage, total_amount, index) ==
    [escrow_id |-> escrow_id,
     amount |-> ToJSON(MilestoneAmount(percentage, total_amount)),
     percentage |-> ToJSON(parseFloat(percentage)),
     order_index |-> index - 1,
     status |-> "pending",
     evidence |-> Null, submitted_by |-> Null, approved_by |-> Null,
     released_at |-> FALSE, rejection_reason |-> Null]

MilestoneRow(escrow_id, percentage, total_amount, index) ==
    [escrow_id |-> escrow_id,
     amount |-> ToJSON(MilestoneAmount(percentage, total_amount)),
     percentage |-> ToJSON(parseFloat(percentage)),
     order_index |-> index,
     status |-> "pending",
     evidence |-> Null, submitted_by |-> Null, approved_by |-> Null,
     released_at |-> FALSE, rejection_reason |-> Null]

milestonesData(escrow_id, total_amount, milestones) ==
    [i \in 1 .. Len(milestones) |->
        MilestoneRow(escrow_id, milestones[i], total_amount, i)]

\* amount and percentage are not nullable: a batch holding a null is refused
BatchAccepted(rows) ==
    \A i \in 1 .. Len(rows) : rows[i].amount # NullNumber /\ rows[i].percentage # NullNumber

\* crypto.randomBytes(32): a fresh token, never one already handed out
NewToken == Len(escrows) + 1

\* faulty variant: the difference to 100 is compared without Math.abs
CreateValidation_noabs(milestones) ==
    IF milestones = None \/ Len(milestones[1]) = 0 THEN 400
    ELSE IF Greater(Plus(SumPercentage(milestones[1]), -HundredPercent), Tolerance)
         THEN 400
    ELSE 0

CreateValidation(milestones) ==
    IF milestones = None \/ Len(milestones[1]) = 0 THEN 400
    ELSE IF Greater(AbsDiff(SumPercentage(milestones[1]), HundredPercent), Tolerance) THEN 400
    ELSE 0

\* faulty variant: the escrow row is taken back when the batch insert fails
Create_cleanup(actor, customer_email, total_amount, milestones, fail) ==
    IF ~Authenticated(actor)
    THEN /\ resp' = Response("create", 401)
         /\ UNCHANGED <<escrows, escrow_milestones, escrow_activities>>
    ELSE IF CreateValidation(milestones) # 0
    THEN /\ resp' = Response("create", CreateValidation(milestones))
         /\ UNCHANGED <<escrows, escrow_milestones, escrow_activities>>
    ELSE IF fail = "insert"
    THEN /\ resp' = Response("create", 500)
         /\ UNCHANGED <<escrows, escrow_milestones, escrow_activities>>
    ELSE LET id == Len(escrows) + 1
             rows == milestonesData(id, total_amount, milestones[1])
         IN  /\ Len(escrows) < MaxEscrows
             /\ IF fail = "insert2" \/ ~BatchAccepted(rows)
                THEN /\ resp' = Response("create", 500)
                     /\ UNCHANGED <<escrows, escrow_milestones, escrow_activities>>
                ELSE /\ escrows' = Append(escrows,
                               EscrowRow(actor, customer_email, total_amount, NewToken))
                     /\ escrow_milestones' = escrow_milestones \o rows
                     /\ LogActivity(Activity(id, NullNumber, actor, "escrow_created"), fail)
                     /\ resp' = Response("create", 201)

Create(actor, customer_email, total_amount, milestones, fail) ==
    IF ~Authenticated(actor)
    THEN /\ resp' = Response("create", 401)
         /\ UNCHANGED <<escrows, escrow_milestones, escrow_activities>>
    ELSE IF CreateValidation(milestones) # 0
    THEN /\ resp' = Response("create", CreateValidation(milestones))
         /\ UNCHANGED <<escrows, escrow_milestones, escrow_activities>>
    ELSE IF fail = "insert"
    THEN /\ resp' = Response("create", 500)
         /\ UNCHANGED <<escrows, escrow_milestones, escrow_activities>>
    ELSE LET id == Len(escrows) + 1
             rows == milestonesData(id, total_amount, milestones[1])
         IN  /\ Len(escrows) < MaxEscrows
             /\ escrows' = Append(escrows,
                               EscrowRow(actor, customer_email, total_amount, NewToken))
             /\ IF fail = "insert2" \/ ~BatchAccepted(rows)
                THEN /\ resp' = Response("create", 500)
                     /\ UNCHANGED <<escrow_milestones, escrow_activities>>
                ELSE /\ escrow_milestones' = escrow_milestones \o rows
                     /\ LogActivity(Activity(id, NullNumber, actor, "escrow_created"), fail)
                     /\ resp' = Response("create", 201)

-----------------------------------------------------------------------------
(* POST /api/escrow/:id/invite *)

Invite(actor, id, fail) ==
    IF ~Authenticated(actor)
    THEN /\ resp' = Response("invite", 401)
         /\ UNCHANGED <<escrows, escrow_milestones, escrow_activities>>
    ELSE IF ~Exists(escrows, id) \/ escrows[id].sme_id # actor
    THEN /\ resp' = Response("invite", 404)
         /\ UNCHANGED <<escrows, escrow_milestones, escrow_activities>>
    ELSE IF fail = "update"
    THEN /\ resp' = Response("invite", 500)
         /\ UNCHANGED <<escrows, escrow_milestones, escrow_activities>>
    ELSE /\ escrows' = UpdateRow(escrows, id,
                           [status |-> "invited", invite_sent_at |-> TRUE])
         /\ LogActivity(Activity(id, NullNumber, actor, "invite_sent"), fail)
         /\ resp' = Response("invite", 200)
         /\ UNCHANGED escrow_milestones

-----------------------------------------------------------------------------
(* GET /api/escrow/invites *)

\* faulty variant: escrows that already have a customer are listed too
PendingFilter_anycustomer(escrow, userEmail) ==
    /\ escrow.customer_email = userEmail
    /\ escrow.status \in {"draft", "invited"}

\* .eq('customer_email', userEmail).is('customer_id', null)
\* .in('status', ['draft', 'invited'])
PendingFilter(escrow, userEmail) ==
    /\ escrow.customer_email = userEmail
    /\ escrow.customer_id = Null
    /\ escrow.status \in {"draft", "invited"}

\* .select('id, ..., status, invite_token, created_at')
InviteColumns(id) ==
    [id |-> id, status |-> escrows[id].status,
     invite_token |-> escrows[id].invite_token]

RECURSIVE NewestFirst(_)
\* .order('created_at', { ascending: false }): rows are created in id order
NewestFirst(ids) ==
    IF ids = {} THEN <<>>
    ELSE LET last == CHOOSE i \in ids : \A j \in ids : j <= i
         IN  <<InviteColumns(last)>> \o NewestFirst(ids \ {last})

PendingInvites(userEmail) ==
    NewestFirst({id \in 1 .. Len(escrows) : PendingFilter(escrows[id], userEmail)})

\* the body of a successful answer: { success: true, invites }
InvitesResponse(invites) == [op |-> "invites", code |-> 200, invites |-> invites]

ListPendingInvites(actor, fail) ==
    /\ resp' = IF ~Authenticated(actor) THEN Response("invites", 401)
               ELSE IF fail # "none" THEN Response("invites", 500)
               ELSE InvitesResponse(PendingInvites(EmailOf(actor)))
    /\ UNCHANGED <<escrows, escrow_milestones, escrow_activities>>

-----------------------------------------------------------------------------
(* POST /api/escrow/accept/:token *)

\* .eq('invite_token', token).single(): the id of the one row with the token, or 0
ByToken(token) ==
    LET hits == {i \in 1 .. Len(escrows) : escrows[i].invite_token = token}
    IN  IF Cardinality(hits) = 1 THEN CHOOSE i \in hits : TRUE ELSE 0

\* faulty variant: an accepted escrow is not recognised
AlreadyAccepted_never(status) == FALSE

\* escrow.status === 'pending_deposit' || escrow.status === 'active'
AlreadyAccepted(status) == status = "pending_deposit" \/ status = "active"

\* faulty variant: the status is looked at before the email
AcceptCheck_statusfirst(escrow, customerEmail) ==
    IF AlreadyAccepted(escrow.status) THEN 400
    ELSE IF escrow.customer_email # customerEmail THEN 403
    ELSE 0

\* faulty variant: the caller's email is not compared
AcceptCheck_noemail(escrow, customerEmail) ==
    IF AlreadyAccepted(escrow.status) THEN 400 ELSE 0

\* the outcome of the checks made on the escrow found: 0 lets the call go on
AcceptCheck(escrow, customerEmail) ==
    IF escrow.customer_email # customerEmail THEN 403
    ELSE IF AlreadyAccepted(escrow.status) THEN 400
    ELSE 0

AcceptedColumns(customerId) ==
    [customer_id |-> customerId, status |-> "pending_deposit",
     invite_accepted_at |-> TRUE]

AcceptInvite(actor, token, fail) ==
    LET id == ByToken(token)
    IN  IF ~Authenticated(actor)
        THEN /\ resp' = Response("accept", 401)
             /\ UNCHANGED <<escrows, escrow_milestones, escrow_activities>>
        ELSE IF id = 0
        THEN /\ resp' = Response("accept", 404)
             /\ UNCHANGED <<escrows, escrow_milestones, escrow_activities>>
        ELSE IF AcceptCheck(escrows[id], EmailOf(actor)) # 0
        THEN /\ resp' = Response("accept", AcceptCheck(escrows[id], EmailOf(actor)))
             /\ UNCHANGED <<escrows, escrow_milestones, escrow_activities>>
        ELSE IF fail = "update"
        THEN /\ resp' = Response("accept", 500)
             /\ UNCHANGED <<escrows, escrow_milestones, escrow_activities>>
        ELSE /\ escrows' = UpdateRow(escrows, id, AcceptedColumns(actor))
             /\ LogActivity(Activity(id, NullNumber, actor, "invite_accepted"), fail)
             /\ resp' = Response("accept", 200)
             /\ UNCHANGED escrow_milestones

-----------------------------------------------------------------------------
(* POST /api/escrow/:id/deposit *)

\* faulty variant: the two amount columns are swapped
DepositedColumns_swapped(escrow) ==
    [status |-> "active", total_amount |-> escrow.deposited_amount,
     deposited_at |-> TRUE]

DepositedColumns(escrow) ==
    [status |-> "active", deposited_amount |-> escrow.total_amount,
     deposited_at |-> TRUE]

\* a response whose body carries an error text
ErrorResponse(op, code, error) == [op |-> op, code |-> code, error |-> error]

\* faulty variant: the escrow is looked up by id alone and the caller compared after
DepositResponse_leaky(actor, id, fail) ==
    IF ~Authenticated(actor)
    THEN ErrorResponse("deposit", 401, "Authentication required")
    ELSE IF ~Exists(escrows, id)
    THEN ErrorResponse("deposit", 404, "Escrow not found")
    ELSE IF escrows[id].customer_id # actor
    THEN ErrorResponse("deposit", 403, "Access denied")
    ELSE IF escrows[id].status # "pending_deposit"
    THEN ErrorResponse("deposit", 400, "Escrow not ready for deposit")
    ELSE IF fail = "update"
    THEN ErrorResponse("deposit", 500, "Failed to deposit funds")
    ELSE Response("deposit", 200)

\* faulty variant: an escrow that is already active may be funded again
DepositResponse_anystatus(actor, id, fail) ==
    IF ~Authenticated(actor)
    THEN ErrorResponse("deposit", 401, "Authentication required")
    ELSE IF ~Exists(escrows, id) \/ escrows[id].customer_id # actor
    THEN ErrorResponse("deposit", 404, "Escrow not found")
    ELSE IF escrows[id].status \notin {"pending_deposit", "active"}
    THEN ErrorResponse("deposit", 400, "Escrow not ready for deposit")
    ELSE IF fail = "update"
    THEN ErrorResponse("deposit", 500, "Failed to deposit funds")
    ELSE Response("deposit", 200)

\* the response deposit sends: the select .eq('id', id).eq('customer_id', customerId)
\* finds no row both when there is no escrow id and when the caller is not its customer
DepositResponse(actor, id, fail) ==
    IF ~Authenticated(actor)
    THEN ErrorResponse("deposit", 401, "Authentication required")
    ELSE IF ~Exists(escrows, id) \/ escrows[id].customer_id # actor
    THEN ErrorResponse("deposit", 404, "Escrow not found")
    ELSE IF escrows[id].status # "pending_deposit"
    THEN ErrorResponse("deposit", 400, "Escrow not ready for deposit")
    ELSE IF fail = "update"
    THEN ErrorResponse("deposit", 500, "Failed to deposit funds")
    ELSE Response("deposit", 200)

Deposit(actor, id, fail) ==
    IF DepositResponse(actor, id, fail).code # 200
    THEN /\ resp' = DepositResponse(actor, id, fail)
         /\ UNCHANGED <<escrows, escrow_milestones, escrow_activities>>
    ELSE /\ escrows' = UpdateRow(escrows, id, DepositedColumns(escrows[id]))
         /\ LogActivity(Activity(id, NullNumber, actor, "funds_deposited"), fail)
         /\ resp' = Response("deposit", 200)
         /\ UNCHANGED escrow_milestones

-----------------------------------------------------------------------------
(* POST /api/milestones/:id/submit *)

\* faulty variant: a rejected milestone is not taken back
SubmitCheck_pendingonly(sme_id, status, smeId) ==
    IF sme_id # smeId THEN 403
    ELSE IF status # "pending" THEN 400
    ELSE 0

\* faulty variant: the caller is not compared with the escrow's owner
SubmitCheck_anyone(sme_id, status, smeId) ==
    IF status # "pending" /\ status # "rejected" THEN 400 ELSE 0

\* the outcome of the checks made on the fetched milestone: 0 lets the call go on
SubmitCheck(sme_id, status, smeId) ==
    IF sme_id # smeId THEN 403
    ELSE IF status # "pending" /\ status # "rejected" THEN 400
    ELSE 0

SubmitMilestone(actor, id, evidence, fail) ==
    IF ~Authenticated(actor)
    THEN /\ resp' = Response("submit", 401)
         /\ UNCHANGED <<escrows, escrow_milestones, escrow_activities>>
    ELSE IF ~Exists(escrow_milestones, id)
    THEN /\ resp' = Response("submit", 404)
         /\ UNCHANGED <<escrows, escrow_milestones, escrow_activities>>
    ELSE IF SubmitCheck(escrows[escrow_milestones[id].escrow_id].sme_id,
                        escrow_milestones[id].status, actor) # 0
    THEN /\ resp' = Response("submit",
                         SubmitCheck(escrows[escrow_milestones[id].escrow_id].sme_id,
                                     escrow_milestones[id].status, actor))
         /\ UNCHANGED <<escrows, escrow_milestones, escrow_activities>>
    ELSE IF fail = "update"
    THEN /\ resp' = Response("submit", 500)
         /\ UNCHANGED <<escrows, escrow_milestones, escrow_activities>>
    ELSE /\ escrow_milestones' = UpdateRow(escrow_milestones, id,
                                     [status |-> "submitted", evidence |-> evidence,
                                      submitted_by |-> actor])
         /\ LogActivity(Activity(escrow_milestones[id].escrow_id, id, actor,
                                 "milestone_submitted"), fail)
         /\ resp' = Response("submit", 200)
         /\ UNCHANGED escrows

-----------------------------------------------------------------------------
(* POST /api/milestones/:id/approve *)

\* released_amount || 0
OrZero(x) == IF x = NullNumber THEN 0 ELSE x

\* faulty variant: the milestone's amount is not added
newReleasedAmount_stale(released_amount, amount) ==
    parseFloat(OrZero(released_amount))

\* parseFloat(milestone.escrows.released_amount || 0) + parseFloat(milestone.amount)
newReleasedAmount(released_amount, amount) ==
    Plus(parseFloat(OrZero(released_amount)), parseFloat(amount))

\* faulty variant: the milestone's status is not looked at
ApproveCheck_anystatus(customer_id, status, customerId) ==
    IF customer_id # customerId THEN 403 ELSE 0

\* faulty variant: the status is looked at before the caller
ApproveCheck_statusfirst(customer_id, status, customerId) ==
    IF status # "submitted" THEN 400
    ELSE IF customer_id # customerId THEN 403
    ELSE 0

\* the outcome of the checks made on the fetched milestone: 0 lets the call go on
ApproveCheck(customer_id, status, customerId) ==
    IF customer_id # customerId THEN 403
    ELSE IF status # "submitted" THEN 400
    ELSE 0

ApprovedColumns(customerId) ==
    [status |-> "approved", approved_by |-> customerId, released_at |-> TRUE]

ApproveMilestone(actor, id, fail) ==
    IF ~Authenticated(actor)
    THEN /\ resp' = Response("approve", 401)
         /\ UNCHANGED <<escrows, escrow_milestones, escrow_activities>>
    ELSE IF ~Exists(escrow_milestones, id)
    THEN /\ resp' = Response("approve", 404)
         /\ UNCHANGED <<escrows, escrow_milestones, escrow_activities>>
    ELSE LET milestone == escrow_milestones[id]
             escrow == escrows[milestone.escrow_id]
             check == ApproveCheck(escrow.customer_id, milestone.status, actor)
         IN  IF check # 0
             THEN /\ resp' = Response("approve", check)
                  /\ UNCHANGED <<escrows, escrow_milestones, escrow_activities>>
             ELSE IF fail = "update"
             THEN /\ resp' = Response("approve", 500)
                  /\ UNCHANGED <<escrows, escrow_milestones, escrow_activities>>
             ELSE /\ escrow_milestones' =
                         UpdateRow(escrow_milestones, id, ApprovedColumns(actor))
                  /\ IF fail = "update2"
                     THEN /\ resp' = Response("approve", 500)
                          /\ UNCHANGED <<escrows, escrow_activities>>
                     ELSE /\ escrows' = UpdateRow(escrows, milestone.escrow_id,
                                 [released_amount |->
                                     ToJSON(newReleasedAmount(escrow.released_amount,
                                                              milestone.amount))])
                          /\ LogActivity(Activity(milestone.escrow_id, id, actor,
                                                  "milestone_approved"), fail)
                          /\ resp' = Response("approve", 200)

-----------------------------------------------------------------------------
(* POST /api/milestones/:id/reject *)

\* faulty variant: the reason is not stored
RejectedColumns_noreason(rejection_reason) == [status |-> "rejected"]

RejectedColumns(rejection_reason) ==
    [status |-> "rejected", rejection_reason |-> rejection_reason]

RejectMilestone(actor, id, rejection_reason, fail) ==
    IF ~Authenticated(actor)
    THEN /\ resp' = Response("reject", 401)
         /\ UNCHANGED <<escrows, escrow_milestones, escrow_activities>>
    ELSE IF rejection_reason = ""
    THEN /\ resp' = Response("reject", 400)
         /\ UNCHANGED <<escrows, escrow_milestones, escrow_activities>>
    ELSE IF ~Exists(escrow_milestones, id)
    THEN /\ resp' = Response("reject", 404)
         /\ UNCHANGED <<escrows, escrow_milestones, escrow_activities>>
    ELSE IF escrows[escrow_milestones[id].escrow_id].customer_id # actor
    THEN /\ resp' = Response("reject", 403)
         /\ UNCHANGED <<escrows, escrow_milestones, escrow_activities>>
    ELSE IF fail = "update"
    THEN /\ resp' = Response("reject", 500)
         /\ UNCHANGED <<escrows, escrow_milestones, escrow_activities>>
    ELSE /\ escrow_milestones' = UpdateRow(escrow_milestones, id,
                                     RejectedColumns(rejection_reason))
         /\ LogActivity(Activity(escrow_milestones[id].escrow_id, id, actor,
                                 "milestone_rejected"), fail)
         /\ resp' = Response("reject", 200)
         /\ UNCHANGED escrows

-----------------------------------------------------------------------------
(* The escrow lifecycle, one whole handler per step *)

\* the store call that fails during a request, if any
CreateFails == {"none", "insert", "insert2"}
Fails == {"none", "update"}
ApproveFails == Fails \cup {"update2"}

DoCreate ==
    /\ Room
    /\ UNCHANGED stepVars
    /\ \E actor \in Creators \cup {Anon}, customer_email \in CustomerEmails,
       total_amount \in Totals, milestones \in MilestoneInputs, fail \in CreateFails :
        Create(actor, customer_email, total_amount, milestones, fail)

DoInvite ==
    /\ Room
    /\ UNCHANGED stepVars
    /\ \E actor \in Actors, id \in EscrowIds, fail \in Fails : Invite(actor, id, fail)

DoListPendingInvites ==
    /\ UNCHANGED stepVars
    /\ \E actor \in Actors, fail \in Fails : ListPendingInvites(actor, fail)

DoAcceptInvite ==
    /\ Room
    /\ UNCHANGED stepVars
    /\ \E actor \in Actors, token \in EscrowIds, fail \in Fails :
        AcceptInvite(actor, token, fail)

DoDeposit ==
    /\ Room
    /\ UNCHANGED stepVars
    /\ \E actor \in Actors, id \in EscrowIds, fail \in Fails : Deposit(actor, id, fail)

DoSubmitMilestone ==
    /\ Room
    /\ UNCHANGED stepVars
    /\ \E actor \in Actors, id \in MilestoneIds, evidence \in Evidence, fail \in Fails :
        SubmitMilestone(actor, id, evidence, fail)

DoApproveMilestone ==
    /\ Room
    /\ UNCHANGED stepVars
    /\ \E actor \in Actors, id \in MilestoneIds, fail \in ApproveFails :
        ApproveMilestone(actor, id, fail)

DoRejectMilestone ==
    /\ Room
    /\ UNCHANGED stepVars
    /\ \E actor \in Actors, id \in MilestoneIds, rejection_reason \in Reasons,
       fail \in Fails :
        RejectMilestone(actor, id, rejection_reason, fail)

Next ==
    \/ DoCreate
    \/ DoInvite
    \/ DoListPendingInvites
    \/ DoAcceptInvite
    \/ DoDeposit
    \/ DoSubmitMilestone
    \/ DoApproveMilestone
    \/ DoRejectMilestone

Spec == Init /\ [][Next]_vars

-----------------------------------------------------------------------------
(* The escrow lifecycle when the insert into escrow_activities may fail too *)

\* the store call that fails during a request, if any: the write of the
\* handler, or the insert of the activity row
LogFails == {"none", "update", "log"}

MaxLogged == 2

\* an approval is followed while no escrow has released this much
MaxReleased == 20000

LoggedRoom == Len(escrow_activities) < MaxLogged

\* the milestones field of the create requests followed here: missing, one
\* milestone of 100%, and a milestone whose percentage is not a number
LoggedMilestoneInputs == {None, Some(<<HundredPercent>>), Some(<<5000, Unreadable>>)}

LoggedCreate ==
    /\ LoggedRoom
    /\ UNCHANGED stepVars
    /\ \E actor \in Creators \cup {Anon}, customer_email \in CustomerEmails,
       total_amount \in Totals, milestones \in LoggedMilestoneInputs,
       fail \in CreateFails \cup {"log"} :
        Create(actor, customer_email, total_amount, milestones, fail)

LoggedInvite ==
    /\ LoggedRoom
    /\ UNCHANGED stepVars
    /\ \E actor \in Actors, id \in EscrowIds, fail \in LogFails : Invite(actor, id, fail)

LoggedAcceptInvite ==
    /\ LoggedRoom
    /\ UNCHANGED stepVars
    /\ \E actor \in Actors, token \in EscrowIds, fail \in LogFails :
        AcceptInvite(actor, token, fail)

LoggedDeposit ==
    /\ LoggedRoom
    /\ UNCHANGED stepVars
    /\ \E actor \in Actors, id \in EscrowIds, fail \in LogFails : Deposit(actor, id, fail)

LoggedSubmitMilestone ==
    /\ LoggedRoom
    /\ UNCHANGED stepVars
    /\ \E actor \in Actors, id \in MilestoneIds, evidence \in Evidence,
       fail \in LogFails :
        SubmitMilestone(actor, id, evidence, fail)

LoggedApproveMilestone ==
    /\ LoggedRoom
    /\ \A e \in DOMAIN escrows : escrows[e].released_amount < MaxReleased
    /\ UNCHANGED stepVars
    /\ \E actor \in Actors, id \in MilestoneIds, fail \in LogFails \cup {"update2"} :
        ApproveMilestone(actor, id, fail)

LoggedRejectMilestone ==
    /\ LoggedRoom
    /\ UNCHANGED stepVars
    /\ \E actor \in Actors, id \in MilestoneIds, rejection_reason \in Reasons,
       fail \in LogFails :
        RejectMilestone(actor, id, rejection_reason, fail)

NextLogged ==
    \/ LoggedCreate
    \/ LoggedInvite
    \/ LoggedAcceptInvite
    \/ LoggedDeposit
    \/ LoggedSubmitMilestone
    \/ LoggedApproveMilestone
    \/ LoggedRejectMilestone

SpecLogged == Init /\ [][NextLogged]_vars

-----------------------------------------------------------------------------
(* The release path alone: one escrow whose percentages sum to exactly 100 is
   created and accepted, and its milestones are submitted, approved and rejected
   by any user, over a longer history than Spec follows *)

MaxHistory == 7

HistoryRoom == Len(escrow_activities) < MaxHistory

ExactInputs == {Some(<<HundredPercent>>), Some(<<5000, 3000, 2000>>)}

ExactCreate ==
    /\ UNCHANGED stepVars
    /\ \E actor \in Creators, customer_email \in CustomerEmails,
          total_amount \in Totals, milestones \in ExactInputs :
        Create(actor, customer_email, total_amount, milestones, "none")

AnyAccept ==
    /\ UNCHANGED stepVars
    /\ \E actor \in Users, token \in EscrowIds : AcceptInvite(actor, token, "none")

AnySubmit ==
    /\ UNCHANGED stepVars
    /\ \E actor \in Users, id \in MilestoneIds, evidence \in Evidence :
        SubmitMilestone(actor, id, evidence, "none")

ReleaseApprove ==
    /\ HistoryRoom
    /\ UNCHANGED stepVars
    /\ \E actor \in Users, id \in MilestoneIds : ApproveMilestone(actor, id, "none")

ReleaseReject ==
    /\ HistoryRoom
    /\ UNCHANGED stepVars
    /\ \E actor \in Users, id \in MilestoneIds, rejection_reason \in Reasons :
        RejectMilestone(actor, id, rejection_reason, "none")

ReleaseCreate == HistoryRoom /\ ExactCreate

ReleaseAccept == HistoryRoom /\ AnyAccept

ReleaseSubmit == HistoryRoom /\ AnySubmit

NextRelease ==
    \/ ReleaseCreate
    \/ ReleaseAccept
    \/ ReleaseSubmit
    \/ ReleaseApprove
    \/ ReleaseReject

SpecRelease == Init /\ [][NextRelease]_vars

-----------------------------------------------------------------------------
(* POST /api/milestones/:id/approve, one store call per step: the joined select
   with the checks made on its result, the milestone update, the escrow update,
   and the activity insert with the response.  Two such requests may be in
   flight together. *)

InFlight(s) == approvals[s].pc \notin {"idle", "done"}

Finished(request, code) == [request EXCEPT !.pc = "done", !.code = code]

\* a request that starts while no other is in flight opens a new round: the
\* released amounts are noted and the finished requests are forgotten
OpenRound(s) ==
    IF \E o \in Slots \ {s} : InFlight(o)
    THEN [round |-> approvals, before |-> before]
    ELSE [round |-> [o \in Slots |-> Idle],
          before |-> [e \in 1 .. Len(escrows) |-> escrows[e].released_amount]]

ApproveFetch(s, actor, id) ==
    LET request == [Idle EXCEPT !.actor = actor, !.id = id]
        code == IF ~Authenticated(actor) THEN 401
                ELSE IF ~Exists(escrow_milestones, id) THEN 404
                ELSE ApproveCheck(escrows[escrow_milestones[id].escrow_id].customer_id,
                                  escrow_milestones[id].status, actor)
    IN  /\ ~InFlight(s)
        /\ before' = OpenRound(s).before
        /\ IF code # 0
           THEN /\ approvals' = [OpenRound(s).round EXCEPT ![s] = Finished(request, code)]
                /\ resp' = Response("approve", code)
           ELSE /\ approvals' = [OpenRound(s).round EXCEPT ![s] =
                    [request EXCEPT
                        !.pc = "fetched",
                        !.escrow_id = escrow_milestones[id].escrow_id,
                        !.amount = escrow_milestones[id].amount,
                        !.released_amount =
                            escrows[escrow_milestones[id].escrow_id].released_amount]]
                /\ UNCHANGED resp
        /\ UNCHANGED <<escrows, escrow_milestones, escrow_activities>>
        /\ UNCHANGED <<loanVars, accepts, deposits, assetVars>>

ApproveWriteMilestone(s) ==
    /\ approvals[s].pc = "fetched"
    /\ escrow_milestones' = UpdateRow(escrow_milestones, approvals[s].id,
                                      ApprovedColumns(approvals[s].actor))
    /\ approvals' = [approvals EXCEPT ![s].pc = "milestone_written"]
    /\ UNCHANGED <<escrows, escrow_activities, resp, before>>
    /\ UNCHANGED <<loanVars, accepts, deposits, assetVars>>

ApproveWriteEscrow(s) ==
    /\ approvals[s].pc = "milestone_written"
    /\ escrows' = UpdateRow(escrows, approvals[s].escrow_id,
                       [released_amount |->
                           ToJSON(newReleasedAmount(approvals[s].released_amount,
                                                    approvals[s].amount))])
    /\ approvals' = [approvals EXCEPT ![s].pc = "escrow_written"]
    /\ UNCHANGED <<escrow_milestones, escrow_activities, resp, before>>
    /\ UNCHANGED <<loanVars, accepts, deposits, assetVars>>

ApproveRespond(s) ==
    /\ approvals[s].pc = "escrow_written"
    /\ LogActivity(Activity(approvals[s].escrow_id, approvals[s].id,
                            approvals[s].actor, "milestone_approved"), "none")
    /\ resp' = Response("approve", 200)
    /\ approvals' = [approvals EXCEPT ![s] = Finished(@, 200)]
    /\ UNCHANGED <<escrows, escrow_milestones, before>>
    /\ UNCHANGED <<loanVars, accepts, deposits, assetVars>>

RoundCreate == Room /\ ExactCreate

RoundAccept == Room /\ AnyAccept

RoundSubmit == Room /\ AnySubmit

StepApproveFetch ==
    /\ Room
    /\ \E s \in Slots, actor \in Users, id \in MilestoneIds : ApproveFetch(s, actor, id)

StepApproveWriteMilestone == \E s \in Slots : ApproveWriteMilestone(s)

StepApproveWriteEscrow == \E s \in Slots : ApproveWriteEscrow(s)

StepApproveRespond == \E s \in Slots : ApproveRespond(s)

NextInterleaved ==
    \/ RoundCreate
    \/ RoundAccept
    \/ RoundSubmit
    \/ StepApproveFetch
    \/ StepApproveWriteMilestone
    \/ StepApproveWriteEscrow
    \/ StepApproveRespond

SpecInterleaved == Init /\ [][NextInterleaved]_vars

-----------------------------------------------------------------------------
(* POST /api/escrow/accept/:token, one store call per step: the select by token
   with the checks made on its result, the escrows update, and the activity
   insert with the response.  Two such requests may be in flight together, among
   the other escrow and milestone requests run in one step on escrows of a
   single milestone.  A request that has been answered leaves nothing behind but
   its response. *)

AcceptFetch(s, actor, token) ==
    LET id == ByToken(token)
        code == IF ~Authenticated(actor) THEN 401
                ELSE IF id = 0 THEN 404
                ELSE AcceptCheck(escrows[id], EmailOf(actor))
    IN  /\ accepts[s].pc = "idle"
        /\ IF code # 0
           THEN /\ resp' = Response("accept", code)
                /\ UNCHANGED accepts
           ELSE /\ accepts' = [accepts EXCEPT ![s] =
                                  [pc |-> "fetched", actor |-> actor, id |-> id]]
                /\ UNCHANGED resp
        /\ UNCHANGED <<escrows, escrow_milestones, escrow_activities>>

AcceptWrite(s, fail) ==
    /\ accepts[s].pc = "fetched"
    /\ IF fail = "update"
       THEN /\ resp' = Response("accept", 500)
            /\ accepts' = [accepts EXCEPT ![s] = IdleAccept]
            /\ UNCHANGED escrows
       ELSE /\ escrows' = UpdateRow(escrows, accepts[s].id,
                                    AcceptedColumns(accepts[s].actor))
            /\ accepts' = [accepts EXCEPT ![s].pc = "written"]
            /\ UNCHANGED resp
    /\ UNCHANGED <<escrow_milestones, escrow_activities>>

AcceptRespond(s) ==
    /\ accepts[s].pc = "written"
    /\ LogActivity(Activity(accepts[s].id, NullNumber, accepts[s].actor,
                            "invite_accepted"), "none")
    /\ resp' = Response("accept", 200)
    /\ accepts' = [accepts EXCEPT ![s] = IdleAccept]
    /\ UNCHANGED <<escrows, escrow_milestones>>

notAcceptVars ==
    <<approvals, before, loans, loan_status_history, reviews, deposits, assetVars>>

StepAcceptFetch ==
    /\ Room
    /\ UNCHANGED notAcceptVars
    /\ \E s \in Slots, actor \in Actors, token \in EscrowIds : AcceptFetch(s, actor, token)

StepAcceptWrite ==
    /\ UNCHANGED notAcceptVars
    /\ \E s \in Slots, fail \in Fails : AcceptWrite(s, fail)

StepAcceptRespond ==
    /\ UNCHANGED notAcceptVars
    /\ \E s \in Slots : AcceptRespond(s)

\* an escrow with a single milestone
SingleCreate ==
    /\ Room
    /\ UNCHANGED stepVars
    /\ \E actor \in Creators, customer_email \in CustomerEmails, total_amount \in Totals :
        Create(actor, customer_email, total_amount, Some(<<HundredPercent>>), "none")

RoundApprove ==
    /\ Room
    /\ UNCHANGED stepVars
    /\ \E actor \in Users, id \in MilestoneIds : ApproveMilestone(actor, id, "none")

RoundReject ==
    /\ Room
    /\ UNCHANGED stepVars
    /\ \E actor \in Users, id \in MilestoneIds, rejection_reason \in Reasons :
        RejectMilestone(actor, id, rejection_reason, "none")

NextAccept ==
    \/ SingleCreate
    \/ DoInvite
    \/ DoDeposit
    \/ RoundSubmit
    \/ RoundApprove
    \/ RoundReject
    \/ StepAcceptFetch
    \/ StepAcceptWrite
    \/ StepAcceptRespond

SpecAccept == Init /\ [][NextAccept]_vars

-----------------------------------------------------------------------------
(* Loans.  POST /api/loans/request runs in one step.  POST /api/loans/:id/fund,
   POST /api/lender/approve-loan/:loanId and POST /api/lender/reject-loan/:loanId
   are followed one store call per step, and two of them may be in flight
   together.  The text columns of a loan and its dates other than funded_at and
   reviewed_at are not followed. *)

MaxLoans == 1

LoanIds == 1 .. (MaxLoans + 1)

\* the role column of the caller's profile
RoleOf(u) == CASE u = "u1" -> "sme" [] u = "u2" -> "lender" [] u = "u3" -> "admin"

AssetInputs == {NullNumber, 1}
AmountInputs == {NullNumber, 0, Unreadable, 1000}
TermInputs == {NullNumber, 12}
RateInputs == {NullNumber, 12}
Notes == {"", "risk"}
Kinds == {"approve", "reject"}

\* !x of a number, an unreadable text or a missing value
Falsy(x) == x = NullNumber \/ x = NaN \/ x = 0

\* x <= 0
NotPositive(x) == IF parseFloat(x) = NaN THEN FALSE ELSE x <= 0

parseInt(x) == parseFloat(x)

DefaultRate == 10

parsedInterestRate(interest_rate) ==
    IF Falsy(parseFloat(interest_rate)) THEN DefaultRate ELSE parseFloat(interest_rate)

LoanRow(userId, asset_id, amount_requested, interest_rate, term_months) ==
    [sme_id |-> userId, asset_id |-> parseInt(asset_id),
     amount |-> parseFloat(amount_requested), term |-> parseInt(term_months),
     amount_requested |-> parseFloat(amount_requested),
     term_months |-> parseInt(term_months),
     interest_rate |-> parsedInterestRate(interest_rate),
     status |-> "requested", lender_id |-> Null, funded_at |-> FALSE,
     reviewed_at |-> FALSE, lender_notes |-> Null]

RequestValidation(asset_id, amount_requested, term_months) ==
    IF Falsy(asset_id) THEN 400
    ELSE IF Falsy(amount_requested) \/ NotPositive(amount_requested) THEN 400
    ELSE IF Falsy(term_months) \/ NotPositive(term_months) THEN 400
    ELSE IF \/ parseFloat(amount_requested) = NaN
            \/ parseInt(term_months) = NaN
            \/ parseInt(asset_id) = NaN THEN 400
    ELSE 0

RequestLoan(actor, asset_id, amount_requested, interest_rate, term_months, fail) ==
    IF ~Authenticated(actor)
    THEN /\ resp' = Response("request", 401)
         /\ UNCHANGED loans
    ELSE IF RequestValidation(asset_id, amount_requested, term_months) # 0
    THEN /\ resp' = Response("request", 400)
         /\ UNCHANGED loans
    ELSE IF fail = "insert"
    THEN /\ resp' = Response("request", 500)
         /\ UNCHANGED loans
    ELSE /\ loans' = Append(loans, LoanRow(actor, asset_id, amount_requested,
                                           interest_rate, term_months))
         /\ resp' = Response("request", 201)

ReviewInFlight(s) == reviews[s].pc \notin {"idle", "done"}

\* a request that starts while no other is in flight: the finished ones are
\* forgotten.  Only a request answered 200 is remembered once finished.
LoanRound(s) ==
    IF \E o \in Slots \ {s} : ReviewInFlight(o)
    THEN reviews
    ELSE [o \in Slots |-> IdleReview]

\* faulty variant: a funded loan is taken as available too
FundCheck_fundedtoo(status) ==
    IF status \notin {"requested", "approved", "funded"} THEN 400 ELSE 0

FundCheck(status) == IF status # "requested" /\ status # "approved" THEN 400 ELSE 0

\* the body of the 400 answer carries current_status: loan.status
NotAvailable(status) == [op |-> "fund", code |-> 400, current_status |-> status]

FundedColumns(lenderId) == [lender_id |-> lenderId, status |-> "funded", funded_at |-> TRUE]

FundFetch(s, actor, id) ==
    LET request == [IdleReview EXCEPT !.kind = "fund", !.actor = actor, !.id = id]
        code == IF ~Authenticated(actor) THEN 401
                ELSE IF ~Exists(loans, id) THEN 404
                ELSE FundCheck(loans[id].status)
    IN  /\ ~ReviewInFlight(s)
        /\ IF code # 0
           THEN /\ reviews' = [LoanRound(s) EXCEPT ![s] = IdleReview]
                /\ resp' = IF code = 400 THEN NotAvailable(loans[id].status)
                           ELSE Response(request.kind, code)
           ELSE /\ reviews' = [LoanRound(s) EXCEPT ![s] =
                    [request EXCEPT !.pc = "fetched", !.status = loans[id].status]]
                /\ UNCHANGED resp
        /\ UNCHANGED <<loans, loan_status_history>>

FundWrite(s, fail) ==
    /\ reviews[s].pc = "fetched"
    /\ reviews[s].kind = "fund"
    /\ IF fail = "update"
       THEN /\ reviews' = [reviews EXCEPT ![s] = IdleReview]
            /\ resp' = Response("fund", 500)
            /\ UNCHANGED loans
       ELSE /\ loans' = UpdateRow(loans, reviews[s].id, FundedColumns(reviews[s].actor))
            /\ reviews' = [reviews EXCEPT ![s] = Finished(@, 200)]
            /\ resp' = Response("fund", 200)
    /\ UNCHANGED loan_status_history

requireLenderRole(actor) == RoleOf(actor) = "lender" \/ RoleOf(actor) = "admin"

ReviewCheck(status) == IF status # "requested" THEN 400 ELSE 0

\* the body of the 400 answer carries currentStatus: currentLoan.status
NotPending(kind, status) == [op |-> kind, code |-> 400, currentStatus |-> status]

NewStatus(kind) == IF kind = "approve" THEN "approved" ELSE "rejected"

ReviewedColumns(kind, lenderId, notes) ==
    [status |-> NewStatus(kind), lender_id |-> lenderId, reviewed_at |-> TRUE,
     lender_notes |-> notes]

StatusChange(loan_id, kind, changed_by, notes) ==
    [loan_id |-> loan_id, old_status |-> "requested", new_status |-> NewStatus(kind),
     changed_by |-> changed_by, notes |-> notes]

ReviewFetch(s, kind, actor, id, notes) ==
    LET request == [IdleReview EXCEPT !.kind = kind, !.actor = actor, !.id = id,
                                      !.notes = notes]
        code == IF ~Authenticated(actor) THEN 401
                ELSE IF ~requireLenderRole(actor) THEN 403
                ELSE IF kind = "reject" /\ notes = "" THEN 400
                ELSE IF ~Exists(loans, id) THEN 500
                ELSE ReviewCheck(loans[id].status)
    IN  /\ ~ReviewInFlight(s)
        /\ IF code # 0
           THEN /\ reviews' = [LoanRound(s) EXCEPT ![s] = IdleReview]
                /\ resp' = IF code = 400 /\ ~(kind = "reject" /\ notes = "")
                           THEN NotPending(kind, loans[id].status)
                           ELSE Response(request.kind, code)
           ELSE /\ reviews' = [LoanRound(s) EXCEPT ![s] =
                    [request EXCEPT !.pc = "fetched", !.status = loans[id].status]]
                /\ UNCHANGED resp
        /\ UNCHANGED <<loans, loan_status_history>>

ReviewWrite(s, fail) ==
    /\ reviews[s].pc = "fetched"
    /\ reviews[s].kind \in Kinds
    /\ IF fail = "update"
       THEN /\ reviews' = [reviews EXCEPT ![s] = IdleReview]
            /\ resp' = Response(reviews[s].kind, 500)
            /\ UNCHANGED loans
       ELSE /\ loans' = UpdateRow(loans, reviews[s].id,
                            ReviewedColumns(reviews[s].kind, reviews[s].actor,
                                            reviews[s].notes))
            /\ reviews' = [reviews EXCEPT ![s].pc = "written"]
            /\ UNCHANGED resp
    /\ UNCHANGED loan_status_history

ReviewRespond(s) ==
    /\ reviews[s].pc = "written"
    /\ loan_status_history' =
           Append(loan_status_history,
                  StatusChange(reviews[s].id, reviews[s].kind, reviews[s].actor,
                               reviews[s].notes))
    /\ reviews' = [reviews EXCEPT ![s] = Finished(@, 200)]
    /\ resp' = Response(reviews[s].kind, 200)
    /\ UNCHANGED loans

\* POST /api/lender/loan/:id/approve and /reject (the lender dashboard router)

\* profile.role !== 'lender' is refused
LenderOnly(actor) == RoleOf(actor) = "lender"

\* the columns of the one update; approval_conditions, which approve also
\* writes, is not a column any other handler reads and is left out
DecidedColumns(kind, userId, rejection_reason) ==
    IF kind = "approve"
    THEN [status |-> "approved", lender_id |-> userId, reviewed_at |-> TRUE]
    ELSE [status |-> "rejected", lender_id |-> userId, reviewed_at |-> TRUE,
          lender_notes |-> IF rejection_reason = "" THEN Null ELSE rejection_reason]

LenderOp(kind) == IF kind = "approve" THEN "loan/approve" ELSE "loan/reject"

\* the update carries .eq('id', loanId).select().single(): with no such loan
\* single() reports an error and the answer is 500
LenderDecide(kind, actor, id, rejection_reason, fail) ==
    LET code == IF ~Authenticated(actor) THEN 401
                ELSE IF ~LenderOnly(actor) THEN 403
                ELSE IF fail = "update" \/ ~Exists(loans, id) THEN 500
                ELSE 200
    IN  /\ resp' = Response(LenderOp(kind), code)
        /\ loans' = IF code = 200
                    THEN UpdateRow(loans, id, DecidedColumns(kind, actor, rejection_reason))
                    ELSE loans
        /\ UNCHANGED <<loan_status_history, reviews>>

notLoanVars ==
    <<escrows, escrow_milestones, escrow_activities, approvals, before, accepts, deposits,
      assetVars>>

LoanRequest ==
    /\ Len(loans) < MaxLoans
    /\ UNCHANGED <<notLoanVars, loan_status_history, reviews>>
    /\ \E actor \in Creators \cup {Anon}, asset_id \in AssetInputs,
          amount_requested \in AmountInputs,
          interest_rate \in RateInputs, term_months \in TermInputs,
          fail \in {"none", "insert"} :
          RequestLoan(actor, asset_id, amount_requested, interest_rate, term_months, fail)

StepFundFetch ==
    /\ UNCHANGED notLoanVars
    /\ \E s \in Slots, actor \in Actors, id \in LoanIds : FundFetch(s, actor, id)

StepFundWrite ==
    /\ UNCHANGED notLoanVars
    /\ \E s \in Slots, fail \in Fails : FundWrite(s, fail)

StepReviewFetch ==
    /\ UNCHANGED notLoanVars
    /\ \E s \in Slots, kind \in Kinds, actor \in Actors, id \in LoanIds, notes \in Notes :
          ReviewFetch(s, kind, actor, id, notes)

StepReviewWrite ==
    /\ UNCHANGED notLoanVars
    /\ \E s \in Slots, fail \in Fails : ReviewWrite(s, fail)

StepReviewRespond ==
    /\ UNCHANGED notLoanVars
    /\ \E s \in Slots : ReviewRespond(s)

NextLoan ==
    \/ LoanRequest
    \/ StepFundFetch
    \/ StepFundWrite
    \/ StepReviewFetch
    \/ StepReviewWrite
    \/ StepReviewRespond

SpecLoan == Init /\ [][NextLoan]_vars

-----------------------------------------------------------------------------
(* The two families of lender decisions together: the approve-loan and
   reject-loan routes, one request at a time and store call by store call,
   next to the dashboard router's approve and reject, on one loan that can be
   funded *)

PlainRequest ==
    /\ Len(loans) < MaxLoans
    /\ UNCHANGED <<notLoanVars, loan_status_history, reviews>>
    /\ \E actor \in Creators : RequestLoan(actor, 1, 1000, NullNumber, 12, "none")

OneFundFetch ==
    /\ UNCHANGED notLoanVars
    /\ \E actor \in Users, id \in LoanIds : FundFetch("a", actor, id)

OneFundWrite == UNCHANGED notLoanVars /\ FundWrite("a", "none")

OneReviewFetch ==
    /\ UNCHANGED notLoanVars
    /\ \E kind \in Kinds, actor \in Actors, id \in LoanIds, notes \in Notes :
          ReviewFetch("a", kind, actor, id, notes)

OneReviewWrite == UNCHANGED notLoanVars /\ \E fail \in Fails : ReviewWrite("a", fail)

OneReviewRespond == UNCHANGED notLoanVars /\ ReviewRespond("a")

StepLenderDecide ==
    /\ UNCHANGED notLoanVars
    /\ \E kind \in Kinds, actor \in Actors, id \in LoanIds, rejection_reason \in Notes,
          fail \in Fails :
          LenderDecide(kind, actor, id, rejection_reason, fail)

NextLender ==
    \/ PlainRequest
    \/ OneFundFetch
    \/ OneFundWrite
    \/ OneReviewFetch
    \/ OneReviewWrite
    \/ OneReviewRespond
    \/ StepLenderDecide

SpecLender == Init /\ [][NextLender]_vars

-----------------------------------------------------------------------------
(* POST /api/assets/create and the tokenization it starts in the background *)

MaxAssets == 1

AssetTypes == {"invoice", "shares"}
AssetValues == {0, 500, 5000}
Descriptions == {"too short", "an invoice for goods"}
AssetOwners == {"u1", "u2"}

\* the checks of the validation middleware: 0 lets the request go on
validateAssetCreation(type, value, description) ==
    IF \/ type \notin {"deposit", "purchase_order", "invoice"}
       \/ Falsy(value) \/ NotPositive(value)
       \/ Len(description) < 10
    THEN 400 ELSE 0

\* the row the insert stores; the chain columns and error_message are not set
AssetRow(userId, type, value, description) ==
    [user_id |-> userId, type |-> type, value |-> value,
     description |-> description, status |-> "pending",
     blockchain_asset_id |-> Null, transaction_hash |-> Null,
     block_number |-> NullNumber, error_message |-> Null,
     verification_status |-> Null, verified_at |-> Null]

\* what blockchainService.createAsset resolves with; assetId is drawn at random
MockAssetIds == {"17"}
ChainResult(assetId) ==
    [assetId |-> assetId, transactionHash |-> "0x" \o assetId,
     blockNumber |-> 12345678]
NoResult == [assetId |-> Null, transactionHash |-> Null, blockNumber |-> NullNumber]

\* faulty variant: the handler waits for the tokenization before it answers
Dispatched_awaited ==
    [pc |-> "settled", result |-> ChainResult("17"), error |-> Null, notified |-> TRUE]

\* the promise chain as the handler leaves it: createAsset(...) has been called
\* and .then / .catch are attached, nothing is awaited
Dispatched ==
    [pc |-> "creating", result |-> NoResult, error |-> Null, notified |-> FALSE]

\* res.status(201).json({ ..., asset: { id, ..., status: asset.status, ... } })
CreatedResponse(id, asset) ==
    [op |-> "create-asset", code |-> 201, id |-> id, status |-> asset.status]

\* what the asset and loan-request routes leave alone
notAssetVars ==
    <<escrows, escrow_milestones, escrow_activities, approvals, before, accepts, deposits,
      loan_status_history, reviews, verification_logs>>

CreateAsset(actor, type, value, description, fail) ==
    LET code == IF ~Authenticated(actor) THEN 401
                ELSE IF validateAssetCreation(type, value, description) # 0 THEN 400
                ELSE IF fail = "insert" THEN 500
                ELSE 201
        asset == AssetRow(actor, type, value, description)
    IN  /\ Len(assets) < MaxAssets
        /\ IF code = 201
           THEN /\ assets' = Append(assets, asset)
                /\ tokenizations' = Append(tokenizations, Dispatched)
                /\ resp' = CreatedResponse(Len(assets) + 1, asset)
           ELSE /\ resp' = Response("create-asset", code)
                /\ UNCHANGED <<assets, tokenizations>>
        /\ UNCHANGED <<notAssetVars, loans>>

\* the promise of blockchainService.createAsset settles: it resolves with the
\* chain identifiers, or rejects
TokenizeSettle(id, assetId, rejects) ==
    /\ tokenizations[id].pc = "creating"
    /\ tokenizations' = [tokenizations EXCEPT ![id] =
           IF rejects THEN [@ EXCEPT !.pc = "catch", !.error = "create failed"]
           ELSE [@ EXCEPT !.pc = "then", !.result = ChainResult(assetId)]]
    /\ UNCHANGED <<notAssetVars, loans, assets, resp>>

\* .then: await update({ blockchain_asset_id, transaction_hash, block_number });
\* the error the update may return is not looked at
TokenizeUpdate(id, fail) ==
    /\ tokenizations[id].pc = "then"
    /\ assets' = IF fail = "update" THEN assets
                 ELSE UpdateRow(assets, id,
                          [blockchain_asset_id |-> tokenizations[id].result.assetId,
                           transaction_hash |-> tokenizations[id].result.transactionHash,
                           block_number |-> tokenizations[id].result.blockNumber])
    /\ tokenizations' = [tokenizations EXCEPT ![id].pc = "updated"]
    /\ UNCHANGED <<notAssetVars, loans, resp>>

\* .then, after the update: await notifyOracleForVerification(assetId), which
\* resolves or rejects
TokenizeNotify(id, rejects) ==
    /\ tokenizations[id].pc = "updated"
    /\ tokenizations' = [tokenizations EXCEPT ![id] =
           IF rejects
           THEN [@ EXCEPT !.pc = "catch", !.error = "notify failed", !.notified = TRUE]
           ELSE [@ EXCEPT !.pc = "settled", !.notified = TRUE]]
    /\ UNCHANGED <<notAssetVars, loans, assets, resp>>

\* .catch: the update({ status: 'error', error_message }) query is built but
\* neither awaited nor given a then(); a query of this client is sent when it
\* is awaited, so both outcomes are kept: sent, and never sent
TokenizeCatch(id, sent) ==
    /\ tokenizations[id].pc = "catch"
    /\ assets' = IF sent
                 THEN UpdateRow(assets, id,
                          [status |-> "error", error_message |-> tokenizations[id].error])
                 ELSE assets
    /\ tokenizations' = [tokenizations EXCEPT ![id].pc = "caught"]
    /\ UNCHANGED <<notAssetVars, loans, resp>>

\* POST /api/loans/request of the second loans router, which looks the asset up

OwnedLoanRow(userId, asset_id, amount, term_months) ==
    [sme_id |-> userId, asset_id |-> asset_id, amount |-> amount,
     term |-> term_months, amount_requested |-> amount, term_months |-> term_months,
     interest_rate |-> DefaultRate, status |-> "requested", lender_id |-> Null,
     funded_at |-> FALSE, reviewed_at |-> FALSE, lender_notes |-> Null]

\* .eq('id', asset_id).eq('user_id', userId).single() finds a row
OwnsAsset(userId, asset_id) ==
    Exists(assets, asset_id) /\ assets[asset_id].user_id = userId

RequestOwnedLoan(actor, asset_id, amount, term_months, fail) ==
    LET code == IF ~Authenticated(actor) THEN 401
                ELSE IF Falsy(asset_id) \/ Falsy(amount) \/ Falsy(term_months) THEN 400
                ELSE IF ~OwnsAsset(actor, asset_id) THEN 404
                ELSE IF fail = "insert" THEN 500
                ELSE 200
    IN  /\ resp' = Response("request-owned", code)
        /\ loans' = IF code = 200
                    THEN Append(loans, OwnedLoanRow(actor, asset_id, amount, term_months))
                    ELSE loans

-----------------------------------------------------------------------------
(* Assets, their tokenization and the loans requested against them *)

RequestAmounts == {0, 0 - 5, 1000}
RequestTerms == {0, 12}

DoCreateAsset ==
    \E actor \in AssetOwners \cup {Anon}, type \in AssetTypes, value \in AssetValues,
       description \in Descriptions, fail \in {"none", "insert"} :
        CreateAsset(actor, type, value, description, fail)

StepTokenizeSettle ==
    \E id \in DOMAIN tokenizations, assetId \in MockAssetIds, rejects \in BOOLEAN :
        TokenizeSettle(id, assetId, rejects)

StepTokenizeUpdate ==
    \E id \in DOMAIN tokenizations, fail \in Fails : TokenizeUpdate(id, fail)

StepTokenizeNotify ==
    \E id \in DOMAIN tokenizations, rejects \in BOOLEAN : TokenizeNotify(id, rejects)

StepTokenizeCatch ==
    \E id \in DOMAIN tokenizations, sent \in BOOLEAN : TokenizeCatch(id, sent)

DoRequestLoan ==
    /\ Len(loans) < MaxLoans
    /\ UNCHANGED <<notAssetVars, assets, tokenizations>>
    /\ \E actor \in Creators \cup {Anon}, asset_id \in AssetInputs,
          amount_requested \in RequestAmounts, term_months \in RequestTerms :
          RequestLoan(actor, asset_id, amount_requested, NullNumber, term_months, "none")

DoRequestOwnedLoan ==
    /\ Len(loans) < MaxLoans
    /\ UNCHANGED <<notAssetVars, assets, tokenizations>>
    /\ \E actor \in Creators \cup {Anon}, asset_id \in AssetInputs,
          amount \in RequestAmounts, term_months \in RequestTerms,
          fail \in {"none", "insert"} :
          RequestOwnedLoan(actor, asset_id, amount, term_months, fail)

NextAsset ==
    \/ DoCreateAsset
    \/ StepTokenizeSettle
    \/ StepTokenizeUpdate
    \/ StepTokenizeNotify
    \/ StepTokenizeCatch
    \/ DoRequestLoan
    \/ DoRequestOwnedLoan

SpecAsset == Init /\ [][NextAsset]_vars

\* the event loop runs every callback that is ready, and the calls to the
\* blockchain service settle
FairAsset ==
    /\ SpecAsset
    /\ WF_vars(StepTokenizeSettle)
    /\ WF_vars(StepTokenizeUpdate)
    /\ WF_vars(StepTokenizeNotify)
    /\ WF_vars(StepTokenizeCatch)

-----------------------------------------------------------------------------
(* POST /api/verification/verify-asset/:assetId, its mock oracle, and
   POST /api/assets/:id/verify *)

MaxVerifications == 2

\* the inclusive value range of every asset type
verificationRules ==
    [deposit |-> [minValue |-> 1000, maxValue |-> 1000000],
     purchase_order |-> [minValue |-> 5000, maxValue |-> 5000000],
     invoice |-> [minValue |-> 1000, maxValue |-> 2000000]]

\* verificationRules[asset.type] || verificationRules.deposit
RulesOf(type) ==
    IF type \in DOMAIN verificationRules THEN verificationRules[type]
    ELSE verificationRules.deposit

\* !!asset.description and !!asset.value
HasText(description) == description # Null /\ description # ""
HasValue(value) == ~Falsy(value)

\* faulty variant: the upper end of the range is excluded
valueInRange_exclusive(asset) ==
    /\ HasValue(asset.value)
    /\ asset.value >= RulesOf(asset.type).minValue
    /\ asset.value < RulesOf(asset.type).maxValue

\* asset.value >= rules.minValue && asset.value <= rules.maxValue; a missing
\* value compares as 0 and an unreadable one compares false
valueInRange(asset) ==
    /\ asset.value \notin {NullNumber, NaN}
    /\ asset.value >= RulesOf(asset.type).minValue
    /\ asset.value <= RulesOf(asset.type).maxValue

\* the checks object without its timestamp (a text, which counts as passed);
\* hasValidDescription is the description itself, not a boolean, when the
\* description is missing or empty: None stands for that
Checks(asset) ==
    [hasRequiredFields |-> Some(HasText(asset.description) /\ HasValue(asset.value)),
     valueInRange |-> Some(valueInRange(asset)),
     hasValidDescription |->
        IF HasText(asset.description) THEN Some(Len(asset.description) >= 10)
        ELSE None]

\* typeof check === 'boolean' ? check : true
CheckPasses(check) == IF check = None THEN TRUE ELSE check[1]

Passed(checks) == \A k \in DOMAIN checks : CheckPasses(checks[k])

\* confidence is kept in hundredths
performMockVerification(asset) ==
    LET checks == Checks(asset)
        passed == Passed(checks)
    IN  [status |-> IF passed THEN "verified" ELSE "verification_failed",
         data |-> [checks |-> checks, verifiedAmount |-> asset.value,
                   confidence |-> IF passed THEN 95 ELSE 45,
                   riskScore |-> IF passed THEN "low" ELSE "high"],
         error |-> IF passed THEN Null
                   ELSE "Asset did not meet verification criteria"]

\* the row the handler inserts into verification_logs
VerificationLog(assetId, verificationData) ==
    [asset_id |-> assetId, verification_method |-> "mock_oracle",
     status |-> IF verificationData.status = "verified" THEN "success" ELSE "failed",
     verification_data |-> verificationData.data,
     error_message |-> verificationData.error]

\* asset.user_id !== req.user.id && req.user.role !== 'admin' answers 403
MayVerify(actor, asset) == asset.user_id = actor \/ RoleOf(actor) = "admin"

\* res.json({ success: true, asset: updatedAsset, verification })
VerifiedResponse(verificationData) ==
    [op |-> "verify-asset", code |-> 200, verification |-> verificationData]

\* what the two verification routes leave alone
notVerifyVars ==
    <<escrows, escrow_milestones, escrow_activities, approvals, before, accepts, deposits,
      loans, loan_status_history, reviews, tokenizations>>

\* the whole handler: fetch, check the caller, run the oracle, update the
\* asset (a failed update throws), insert the log row (its error is not
\* looked at), answer
VerifyAsset(actor, assetId, fail) ==
    LET code == IF ~Authenticated(actor) THEN 401
                ELSE IF ~Exists(assets, assetId) THEN 404
                ELSE IF ~MayVerify(actor, assets[assetId]) THEN 403
                ELSE IF fail = "update" THEN 500
                ELSE 200
    IN  IF code = 200
        THEN LET verificationData == performMockVerification(assets[assetId])
             IN  /\ assets' = UpdateRow(assets, assetId,
                        [verification_status |-> verificationData.status,
                         verified_at |-> IF verificationData.status = "verified"
                                         THEN "now" ELSE Null])
                 /\ verification_logs' =
                        IF fail = "log" THEN verification_logs
                        ELSE Append(verification_logs,
                                    VerificationLog(assetId, verificationData))
                 /\ resp' = VerifiedResponse(verificationData)
                 /\ UNCHANGED notVerifyVars
        ELSE /\ resp' = Response("verify-asset", code)
             /\ UNCHANGED <<notVerifyVars, assets, verification_logs>>

\* the route looks at nothing but the bearer credential;
\* update({ status: 'verified' }).eq('id', id): an id that matches no row
\* changes nothing and is answered 200 all the same
ManualVerify(actor, id, fail) ==
    LET code == IF ~Authenticated(actor) THEN 401
                ELSE IF fail = "update" THEN 500
                ELSE 200
    IN  /\ assets' = IF code = 200 /\ Exists(assets, id)
                     THEN UpdateRow(assets, id, [status |-> "verified"])
                     ELSE assets
        /\ resp' = Response("verify", code)
        /\ UNCHANGED <<notVerifyVars, verification_logs>>

\* assets handed to the oracle on its own
SampleTypes == {"deposit", "purchase_order", "invoice", "shares"}
SampleValues ==
    {NullNumber, 0, 500, 999, 1000, 4999, 5000, 50000, 1000000, 1000001,
     2000000, 2000001, 5000000, 5000001}
SampleDescriptions ==
    {Null, "", "too short", "ten chars!", "an invoice for goods"}
AssetSamples ==
    [type : SampleTypes, value : SampleValues, description : SampleDescriptions]

\* the oracle applied to one asset; the answer is kept with the asset
MockVerify(asset) ==
    /\ resp' = [op |-> "oracle", code |-> 0, asset |-> asset,
                verification |-> performMockVerification(asset)]
    /\ UNCHANGED <<notVerifyVars, assets, verification_logs>>

AssetIds == 1 .. (MaxAssets + 1)

DoVerifyAsset ==
    /\ Len(verification_logs) < MaxVerifications
    /\ \E actor \in Actors, assetId \in AssetIds, fail \in {"none", "update", "log"} :
          VerifyAsset(actor, assetId, fail)

DoManualVerify ==
    \E actor \in Actors, id \in AssetIds, fail \in Fails : ManualVerify(actor, id, fail)

DoMockVerify == \E asset \in AssetSamples : MockVerify(asset)

NextVerify ==
    \/ DoCreateAsset
    \/ DoVerifyAsset
    \/ DoManualVerify
    \/ DoMockVerify

SpecVerify == Init /\ [][NextVerify]_vars

-----------------------------------------------------------------------------
(* Deposit followed store call by store call: two deposit requests may be in
   flight together, next to invite and accept *)

\* the select and the checks made on the row it returns
DepositFetch(s, actor, id) ==
    /\ deposits[s].pc = "idle"
    /\ IF DepositResponse(actor, id, "none").code # 200
       THEN /\ resp' = DepositResponse(actor, id, "none")
            /\ UNCHANGED deposits
       ELSE /\ deposits' = [deposits EXCEPT ![s] =
                               [pc |-> "fetched", actor |-> actor, id |-> id,
                                total_amount |-> escrows[id].total_amount]]
            /\ UNCHANGED resp
    /\ UNCHANGED <<escrows, escrow_milestones, escrow_activities>>

\* update({ status: 'active', deposited_amount: escrow.total_amount, ... })
\* .eq('id', id): the row is written by id alone, whatever its status is now
DepositWrite(s, fail) ==
    /\ deposits[s].pc = "fetched"
    /\ IF fail = "update"
       THEN /\ resp' = DepositResponse(deposits[s].actor, deposits[s].id, fail)
            /\ deposits' = [deposits EXCEPT ![s] = IdleDeposit]
            /\ UNCHANGED escrows
       ELSE /\ escrows' = UpdateRow(escrows, deposits[s].id,
                                    DepositedColumns(deposits[s]))
            /\ deposits' = [deposits EXCEPT ![s].pc = "written"]
            /\ UNCHANGED resp
    /\ UNCHANGED <<escrow_milestones, escrow_activities>>

\* the activity insert and the answer
DepositRespond(s) ==
    /\ deposits[s].pc = "written"
    /\ LogActivity(Activity(deposits[s].id, NullNumber, deposits[s].actor,
                            "funds_deposited"), "none")
    /\ resp' = Response("deposit", 200)
    /\ deposits' = [deposits EXCEPT ![s] = IdleDeposit]
    /\ UNCHANGED <<escrows, escrow_milestones>>

notDepositVars ==
    <<approvals, before, loans, loan_status_history, reviews, accepts, assetVars>>

StepDepositFetch ==
    /\ Room
    /\ UNCHANGED notDepositVars
    /\ \E s \in Slots, actor \in Actors, id \in EscrowIds : DepositFetch(s, actor, id)

StepDepositWrite ==
    /\ UNCHANGED notDepositVars
    /\ \E s \in Slots, fail \in Fails : DepositWrite(s, fail)

StepDepositRespond ==
    /\ UNCHANGED notDepositVars
    /\ \E s \in Slots : DepositRespond(s)

NextDeposit ==
    \/ SingleCreate
    \/ DoInvite
    \/ DoAcceptInvite
    \/ StepDepositFetch
    \/ StepDepositWrite
    \/ StepDepositRespond

SpecDeposit == Init /\ [][NextDeposit]_vars

-----------------------------------------------------------------------------
(* Reading the tables *)

EscrowRows == 1 .. Len(escrows)
MilestoneRows == 1 .. Len(escrow_milestones)

MilestonesOf(e) == {id \in MilestoneRows : escrow_milestones[id].escrow_id = e}

RECURSIVE SumOver(_, _, _)
\* the sum of table[id][column] over the ids in rows
SumOver(table, column, rows) ==
    IF rows = {} THEN 0
    ELSE LET id == CHOOSE x \in rows : TRUE
         IN  table[id][column] + SumOver(table, column, rows \ {id})

\* the step just taken was a request to op, answered with code
Answered(op, code) == resp'.op = op /\ resp'.code = code

-----------------------------------------------------------------------------
(* C1: in every reachable state of every escrow,
   released_amount <= deposited_amount <= total_amount *)
AmountsOrdered ==
    \A e \in EscrowRows :
        /\ escrows[e].released_amount <= escrows[e].deposited_amount
        /\ escrows[e].deposited_amount <= escrows[e].total_amount

(* C2: for every escrow, released_amount <= total_amount after any sequence of
   submitMilestone, approveMilestone and rejectMilestone calls on its
   milestones, rejections and resubmissions included *)
ReleasedWithinTotal ==
    \A e \in EscrowRows : escrows[e].released_amount <= escrows[e].total_amount

(* C3: every successful approveMilestone turns one submitted milestone into an
   approved one and adds exactly that milestone's amount to its escrow's
   released_amount, leaving total_amount and deposited_amount as they were *)
ApproveReleasesAmount ==
    [][Answered("approve", 200) =>
        \E id \in MilestoneRows :
            LET e == escrow_milestones[id].escrow_id
            IN  /\ escrow_milestones[id].status = "submitted"
                /\ escrow_milestones'[id].status = "approved"
                /\ escrows'[e].released_amount =
                       escrows[e].released_amount + escrow_milestones[id].amount
                /\ escrows'[e].total_amount = escrows[e].total_amount
                /\ escrows'[e].deposited_amount = escrows[e].deposited_amount]_vars

\* the example of C3: total 10000 split 50/30/20, milestone 1 approved from 0
ApprovedFirstHalf ==
    /\ resp = Response("approve", 200)
    /\ Len(escrows) = 1
    /\ escrows[1].total_amount = 10000
    /\ MilestonesOf(1) = {1, 2, 3}
    /\ escrow_milestones[1].percentage = 5000
    /\ escrow_milestones[1].status = "approved"
    /\ escrow_milestones[2].status # "approved"
    /\ escrow_milestones[3].status # "approved"
    /\ escrows[1].released_amount = 5000

(* C4: an escrow's released_amount changes only in a successful approveMilestone
   issued by the escrow's customer on a milestone that was submitted; every
   other request, and every failed one, leaves it as it was *)
ReleasedOnlyByApproval ==
    [][\A e \in EscrowRows :
        escrows'[e].released_amount # escrows[e].released_amount =>
            /\ Answered("approve", 200)
            /\ \E id \in MilestonesOf(e) :
                /\ escrow_milestones[id].status = "submitted"
                /\ escrow_milestones'[id].status = "approved"
                /\ escrow_milestones'[id].approved_by = escrows[e].customer_id]_vars

\* funds were released, and later requests (one of them refused) left them alone
ReleasedThenRefused ==
    /\ \E e \in EscrowRows : escrows[e].released_amount > 0
    /\ resp.op # "approve"
    /\ resp.code = 403

-----------------------------------------------------------------------------
(* What the claims say of a create request, stated apart from the handler *)

IsNumber(x) == x # Unreadable /\ x # NaN /\ x # NullNumber

RECURSIVE SeqSum(_)
SeqSum(q) == IF q = <<>> THEN 0 ELSE Head(q) + SeqSum(Tail(q))

\* a non-empty list of numbers whose sum lies in [99.99, 100.01]
WellFormed(milestones) ==
    /\ milestones # None
    /\ Len(milestones[1]) > 0
    /\ \A i \in 1 .. Len(milestones[1]) : IsNumber(milestones[1][i])
    /\ SeqSum(milestones[1]) >= HundredPercent - Tolerance
    /\ SeqSum(milestones[1]) <= HundredPercent + Tolerance

\* the milestones of escrow e approved by the requests of the round
ApprovedInRound(e) ==
    {approvals[s].id : s \in {x \in Slots : /\ approvals[x].pc = "done"
                                            /\ approvals[x].code = 200
                                            /\ approvals[x].escrow_id = e}}

\* the request in slot s was answered 200
Succeeded(s) == reviews[s].pc = "done" /\ reviews[s].code = 200

(* C5: when no approve request is in flight any more, every escrow's
   released_amount is what it was before the requests of the round began plus
   the amount of each milestone they approved, each milestone counted once *)
NoLostRelease ==
    (\A s \in Slots : ~InFlight(s)) =>
        \A e \in DOMAIN before :
            escrows[e].released_amount =
                before[e] + SumOver(escrow_milestones, "amount", ApprovedInRound(e))

(* C6: of two fund, approve-loan or reject-loan requests on the same loan that
   both read it in status requested, at most one succeeds; and while a fund
   request stands answered 200, the loan's lender_id is the caller it answered *)
OneDecisionPerLoan ==
    /\ ~ \E s \in Slots, t \in Slots :
          /\ s # t
          /\ Succeeded(s) /\ Succeeded(t)
          /\ reviews[s].id = reviews[t].id
          /\ reviews[s].status = "requested"
          /\ reviews[t].status = "requested"
    /\ \A s \in Slots :
          (Succeeded(s) /\ reviews[s].kind = "fund") =>
              loans[reviews[s].id].lender_id = reviews[s].actor

(* C7: create with an empty or missing milestones list, or with percentages whose
   sum lies outside [99.99, 100.01], is answered 400 and writes no escrow row,
   no milestone row and no activity row *)
CreateRejectsBadMilestones ==
    [][\A actor \in Creators, customer_email \in CustomerEmails,
          total_amount \in Totals, milestones \in MilestoneInputs,
          fail \in CreateFails :
        (Create(actor, customer_email, total_amount, milestones, fail)
         /\ ~WellFormed(milestones))
            => (resp'.code = 400
                /\ UNCHANGED <<escrows, escrow_milestones, escrow_activities>>)]_vars

(* C8: for every escrow whose create succeeded (the escrows that have milestone
   rows), the milestones' amounts sum to total_amount and their percentages to
   100, both within the 0.01 percentage points create accepts *)
SumsMatchTotal ==
    \A e \in EscrowRows :
        MilestonesOf(e) # {} =>
            /\ Abs(SumOver(escrow_milestones, "percentage", MilestonesOf(e))
                   - HundredPercent) <= Tolerance
            /\ Abs(SumOver(escrow_milestones, "amount", MilestonesOf(e))
                   - escrows[e].total_amount) * HundredPercent
                   <= Tolerance * escrows[e].total_amount

\* an escrow was created with percentages that sum to 99.99
CreatedAtTolerance ==
    /\ resp = Response("create", 201)
    /\ \E e \in EscrowRows :
        /\ MilestonesOf(e) # {}
        /\ SumOver(escrow_milestones, "percentage", MilestonesOf(e))
               = HundredPercent - Tolerance

(* C9: a successful create persists one escrow with status draft, sme_id = actor
   and customer_id null, and one milestone per input entry, the i-th with
   order_index i, status pending and amount = percentage/100 x total_amount, so
   that the order_index values of the escrow are 1..n *)
CreatePersists ==
    [][Answered("create", 201) =>
       \A actor \in Creators, customer_email \in CustomerEmails,
          total_amount \in Totals, milestones \in MilestoneInputs,
          fail \in CreateFails :
        Create(actor, customer_email, total_amount, milestones, fail)
            => LET e == Len(escrows) + 1
                   n == Len(milestones[1])
                   base == Len(escrow_milestones)
               IN  /\ Len(escrows') = e
                   /\ SubSeq(escrows', 1, Len(escrows)) = escrows
                   /\ escrows'[e].status = "draft"
                   /\ escrows'[e].sme_id = actor
                   /\ escrows'[e].customer_id = Null
                   /\ escrows'[e].total_amount = total_amount
                   /\ Len(escrow_milestones') = base + n
                   /\ SubSeq(escrow_milestones', 1, base) = escrow_milestones
                   /\ \A i \in 1 .. n :
                        LET m == escrow_milestones'[base + i]
                        IN  /\ m.escrow_id = e
                            /\ m.order_index = i
                            /\ m.status = "pending"
                            /\ m.percentage = milestones[1][i]
                            /\ m.amount * HundredPercent
                                   = milestones[1][i] * total_amount
                   /\ {escrow_milestones'[id].order_index :
                          id \in {x \in 1 .. Len(escrow_milestones') :
                                     escrow_milestones'[x].escrow_id = e}}
                         = 1 .. n]_vars

\* the 50/30/20 escrow right after its creation
CreatedThreeMilestones ==
    /\ resp = Response("create", 201)
    /\ Len(escrows) = 1
    /\ escrows[1].status = "draft"
    /\ MilestonesOf(1) = {1, 2, 3}
    /\ escrow_milestones[1].amount = 5000
    /\ escrow_milestones[2].amount = 3000
    /\ escrow_milestones[3].amount = 2000

(* C10: no request adds a milestone to, or removes one from, an escrow that
   exists, or changes a milestone's percentage, amount, order_index or
   escrow_id, or an escrow's total_amount *)
MilestonesFrozen ==
    [][/\ Len(escrows') >= Len(escrows)
       /\ Len(escrow_milestones') >= Len(escrow_milestones)
       /\ \A e \in EscrowRows : escrows'[e].total_amount = escrows[e].total_amount
       /\ \A id \in MilestoneRows :
            /\ escrow_milestones'[id].percentage = escrow_milestones[id].percentage
            /\ escrow_milestones'[id].amount = escrow_milestones[id].amount
            /\ escrow_milestones'[id].order_index = escrow_milestones[id].order_index
            /\ escrow_milestones'[id].escrow_id = escrow_milestones[id].escrow_id
       /\ \A id \in 1 .. Len(escrow_milestones') :
            id \notin MilestoneRows =>
                escrow_milestones'[id].escrow_id \notin EscrowRows]_vars

\* an escrow that was invited, accepted, funded and had a milestone submitted
WorkedOnEscrow ==
    \E e \in EscrowRows :
        /\ escrows[e].status = "active"
        /\ escrows[e].invite_sent_at
        /\ \E id \in MilestonesOf(e) : escrow_milestones[id].status = "submitted"

-----------------------------------------------------------------------------
(* C11: an escrow's status changes only along draft -> invited,
   draft -> pending_deposit, invited -> pending_deposit and
   pending_deposit -> active; no request moves an escrow back *)
EscrowStatusEdges ==
    [][\A e \in EscrowRows :
        escrows'[e].status # escrows[e].status =>
            <<escrows[e].status, escrows'[e].status>> \in
                {<<"draft", "invited">>, <<"draft", "pending_deposit">>,
                 <<"invited", "pending_deposit">>,
                 <<"pending_deposit", "active">>}]_vars

(* C12: a milestone's status changes only along pending -> submitted,
   submitted -> approved, submitted -> rejected and rejected -> submitted;
   an approved milestone keeps its status *)
MilestoneStatusEdges ==
    [][\A id \in MilestoneRows :
        escrow_milestones'[id].status # escrow_milestones[id].status =>
            <<escrow_milestones[id].status, escrow_milestones'[id].status>> \in
                {<<"pending", "submitted">>, <<"submitted", "approved">>,
                 <<"submitted", "rejected">>, <<"rejected", "submitted">>}]_vars

\* the row appended last to the activity log
LastActivity == escrow_activities[Len(escrow_activities)]

(* C13: an acceptInvite on a draft or invited escrow by the caller whose email
   is its customer_email succeeds; the same call repeated right after it is
   answered 400 and leaves the escrow (customer_id, status, invite_accepted_at)
   and the log as they were *)
AcceptTwice ==
    [][resp'.op = "accept" =>
        \A actor \in Users, token \in EscrowIds, fail \in Fails :
            AcceptInvite(actor, token, fail) =>
                LET id == ByToken(token)
                IN  /\ (/\ id # 0
                        /\ escrows[id].status \in {"draft", "invited"}
                        /\ escrows[id].customer_email = EmailOf(actor)
                        /\ fail = "none")
                           => /\ resp'.code = 200
                              /\ escrows'[id].customer_id = actor
                              /\ escrows'[id].status = "pending_deposit"
                              /\ escrows'[id].invite_accepted_at
                    /\ (/\ resp = Response("accept", 200)
                        /\ escrow_activities # <<>>
                        /\ LastActivity.action_type = "invite_accepted"
                        /\ LastActivity.user_id = actor
                        /\ LastActivity.escrow_id = id)
                           => /\ resp'.code = 400
                              /\ UNCHANGED <<escrows, escrow_milestones,
                                             escrow_activities>>]_vars

\* the second of two successive accepts was refused
AcceptedThenRefused ==
    /\ resp = Response("accept", 400)
    /\ escrow_activities # <<>>
    /\ LastActivity.action_type = "invite_accepted"
    /\ escrows[LastActivity.escrow_id].customer_id = LastActivity.user_id
    /\ escrows[LastActivity.escrow_id].status = "pending_deposit"

(* C15, as stated: acceptInvite by an authenticated caller whose email is not
   the customer_email of an escrow with the given token is answered 403 and
   changes nothing, whether or not the token matches an escrow *)
AcceptDeniedAnyToken ==
    [][resp'.op = "accept" =>
        \A actor \in Users, token \in EscrowIds, fail \in Fails :
            (/\ AcceptInvite(actor, token, fail)
             /\ ~ \E e \in EscrowRows : /\ escrows[e].invite_token = token
                                        /\ escrows[e].customer_email = EmailOf(actor))
                => /\ resp'.code = 403
                   /\ UNCHANGED <<escrows, escrow_milestones, escrow_activities>>]_vars

(* C15, amended: acceptInvite with a token that matches an escrow, by an
   authenticated caller whose email differs from that escrow's customer_email,
   is answered 403 whatever the escrow's status; with a token that matches no
   escrow it is answered 404; neither changes any state *)
AcceptDeniedByEmail ==
    [][resp'.op = "accept" =>
        \A actor \in Users, token \in EscrowIds, fail \in Fails :
            AcceptInvite(actor, token, fail) =>
                /\ (ByToken(token) # 0
                    /\ escrows[ByToken(token)].customer_email # EmailOf(actor))
                      => /\ resp'.code = 403
                         /\ UNCHANGED <<escrows, escrow_milestones, escrow_activities>>
                /\ ByToken(token) = 0
                      => /\ resp'.code = 404
                         /\ UNCHANGED <<escrows, escrow_milestones, escrow_activities>>]_vars

\* a caller with another email was refused on an escrow that is already active
StrangerRefusedOnActive ==
    /\ resp = Response("accept", 403)
    /\ \E e \in EscrowRows : escrows[e].status = "active"

(* C16: deposit succeeds only when the caller is the escrow's customer_id and
   the status is pending_deposit, and then sets status = active and
   deposited_amount = total_amount; a caller who is not the customer is answered
   404 and any other status 400, the escrow row and the log unchanged *)
DepositContract ==
    [][resp'.op = "deposit" =>
        \A actor \in Users, id \in EscrowIds, fail \in Fails :
            Deposit(actor, id, fail) =>
                LET customer == Exists(escrows, id) /\ escrows[id].customer_id = actor
                IN  /\ resp'.code = 200 =>
                          /\ customer
                          /\ escrows[id].status = "pending_deposit"
                          /\ escrows'[id].status = "active"
                          /\ escrows'[id].deposited_amount = escrows[id].total_amount
                    /\ (customer /\ escrows[id].status = "pending_deposit"
                        /\ fail = "none") => resp'.code = 200
                    /\ ~customer =>
                          /\ resp'.code = 404
                          /\ UNCHANGED <<escrows, escrow_activities>>
                    /\ (customer /\ escrows[id].status # "pending_deposit") =>
                          /\ resp'.code = 400
                          /\ UNCHANGED <<escrows, escrow_activities>>]_vars

\* a second deposit by the customer was refused on the funded escrow
DepositRefusedOnActive ==
    /\ resp.op = "deposit"
    /\ resp.code = 400
    /\ \E e \in EscrowRows :
        /\ escrows[e].status = "active"
        /\ escrows[e].deposited_amount = escrows[e].total_amount

(* C17: to a caller who is not an escrow's customer, deposit on that escrow's id
   sends the very response (code and body) it sends for an id that matches no
   escrow, in every status of the escrow *)
DepositHidesExistence ==
    \A actor \in Users, id \in EscrowRows, missing \in EscrowIds \ EscrowRows,
       fail \in Fails :
        escrows[id].customer_id # actor =>
            DepositResponse(actor, id, fail) = DepositResponse(actor, missing, fail)

\* a stranger's deposit on an active escrow was answered as if there were none
StrangerDepositNotFound ==
    /\ resp = ErrorResponse("deposit", 404, "Escrow not found")
    /\ \E e \in EscrowRows : escrows[e].status = "active"

(* C18: submitMilestone succeeds only when the caller is the parent escrow's
   sme_id and the milestone is pending or rejected, and then sets status =
   submitted and stores the evidence and submitted_by = caller; another caller
   is answered 403, the SME on a submitted or approved milestone 400, and every
   failed call leaves the milestone and the log unchanged; the SME's submit of a
   rejected milestone succeeds *)
SubmitContract ==
    [][resp'.op = "submit" =>
        \A actor \in Users, id \in MilestoneRows, evidence \in Evidence,
           fail \in Fails :
            SubmitMilestone(actor, id, evidence, fail) =>
                LET owner == escrows[escrow_milestones[id].escrow_id].sme_id = actor
                    open == escrow_milestones[id].status \in {"pending", "rejected"}
                IN  /\ resp'.code = 200 =>
                          /\ owner /\ open
                          /\ escrow_milestones'[id].status = "submitted"
                          /\ escrow_milestones'[id].evidence = evidence
                          /\ escrow_milestones'[id].submitted_by = actor
                    /\ (owner /\ open /\ fail = "none") => resp'.code = 200
                    /\ ~owner => resp'.code = 403
                    /\ (owner /\ ~open) => resp'.code = 400
                    /\ resp'.code # 200 =>
                          UNCHANGED <<escrow_milestones, escrow_activities>>]_vars

\* a rejected milestone was submitted again
Resubmitted ==
    /\ resp = Response("submit", 200)
    /\ \E id \in MilestoneRows :
        /\ escrow_milestones[id].status = "submitted"
        /\ escrow_milestones[id].rejection_reason # Null

(* C19: approveMilestone succeeds only when the caller is the parent escrow's
   customer_id and the milestone is submitted; any other caller (the SME, and
   anyone while customer_id is null) is answered 403, the customer on a
   milestone in any other status 400, and these failed calls leave the
   milestone, the escrow's released_amount and the log unchanged *)
ApproveContract ==
    [][resp'.op = "approve" =>
        \A actor \in Users, id \in MilestoneRows, fail \in ApproveFails :
            ApproveMilestone(actor, id, fail) =>
                LET e == escrow_milestones[id].escrow_id
                    customer == escrows[e].customer_id = actor
                    submitted == escrow_milestones[id].status = "submitted"
                IN  /\ resp'.code = 200 => (customer /\ submitted)
                    /\ (customer /\ submitted /\ fail = "none") => resp'.code = 200
                    /\ ~customer => resp'.code = 403
                    /\ (customer /\ ~submitted) => resp'.code = 400
                    /\ resp'.code \in {403, 400} =>
                          /\ UNCHANGED <<escrow_milestones, escrow_activities>>
                          /\ escrows'[e].released_amount = escrows[e].released_amount]_vars

\* the SME was refused the approval of its own submitted milestone while the
\* escrow had no customer yet
ApproveRefusedWithoutCustomer ==
    /\ resp = Response("approve", 403)
    /\ \E id \in MilestoneRows :
        /\ escrow_milestones[id].status = "submitted"
        /\ escrows[escrow_milestones[id].escrow_id].customer_id = Null

(* C20: rejectMilestone without a rejection_reason is answered 400 and changes
   nothing; with a reason it succeeds only when the caller is the parent
   escrow's customer_id (any other caller is answered 403, nothing changed), and
   then sets the milestone's status to rejected and stores the reason, leaving
   the escrow's released_amount and deposited_amount as they were *)
RejectContract ==
    [][resp'.op = "reject" =>
        \A actor \in Users, id \in MilestoneRows, rejection_reason \in Reasons,
           fail \in Fails :
            RejectMilestone(actor, id, rejection_reason, fail) =>
                LET e == escrow_milestones[id].escrow_id
                    customer == escrows[e].customer_id = actor
                IN  /\ rejection_reason = "" =>
                          /\ resp'.code = 400
                          /\ UNCHANGED <<escrows, escrow_milestones, escrow_activities>>
                    /\ (rejection_reason # "" /\ ~customer) =>
                          /\ resp'.code = 403
                          /\ UNCHANGED <<escrows, escrow_milestones, escrow_activities>>
                    /\ (rejection_reason # "" /\ customer /\ fail = "none") =>
                          resp'.code = 200
                    /\ resp'.code = 200 =>
                          /\ customer
                          /\ rejection_reason # ""
                          /\ escrow_milestones'[id].status = "rejected"
                          /\ escrow_milestones'[id].rejection_reason = rejection_reason
                          /\ escrows'[e].released_amount = escrows[e].released_amount
                          /\ escrows'[e].deposited_amount = escrows[e].deposited_amount]_vars

\* a submitted milestone of a funded escrow was rejected with a reason
RejectedWithReason ==
    /\ resp = Response("reject", 200)
    /\ \E id \in MilestoneRows :
        /\ escrow_milestones[id].status = "rejected"
        /\ escrow_milestones[id].rejection_reason = "incomplete"
        /\ escrow_milestones[id].submitted_by # Null
        /\ escrows[escrow_milestones[id].escrow_id].deposited_amount > 0

(* C14: a new escrow has customer_id null, customer_id changes only in the
   update of an acceptInvite, and once it is a user id no request, in any
   sequence or interleaving, changes it to another value or back to null *)
CustomerIdSetOnce ==
    [][/\ \A e \in EscrowRows :
            /\ escrows[e].customer_id # Null =>
                   escrows'[e].customer_id = escrows[e].customer_id
            /\ escrows'[e].customer_id # escrows[e].customer_id =>
                   \E s \in Slots : /\ accepts[s].pc = "fetched"
                                    /\ accepts'[s].pc = "written"
                                    /\ accepts[s].id = e
                                    /\ escrows'[e].customer_id = accepts[s].actor
       /\ \A e \in 1 .. Len(escrows') :
            e \notin EscrowRows => escrows'[e].customer_id = Null]_vars

\* an escrow was accepted, invited again and accepted a second time
AcceptedAgain ==
    \E i \in DOMAIN escrow_activities, j \in DOMAIN escrow_activities :
        /\ i < j
        /\ escrow_activities[i].action_type = "invite_accepted"
        /\ escrow_activities[j].action_type = "invite_accepted"
        /\ escrow_activities[i].escrow_id = escrow_activities[j].escrow_id
        /\ escrows[escrow_activities[i].escrow_id].customer_id
               = escrow_activities[i].user_id

(* C21: sendInvite by an authenticated actor who is not the escrow's sme_id is
   answered 403, on an id that matches no escrow 404, in both cases with no
   escrow row and no activity changed; by the owner it sets status = invited
   and stamps invite_sent_at *)
InviteContract ==
    [][resp'.op = "invite" =>
        \A actor \in Users, id \in EscrowIds, fail \in Fails :
            Invite(actor, id, fail) =>
                /\ (Exists(escrows, id) /\ escrows[id].sme_id # actor) =>
                      /\ resp'.code = 403
                      /\ UNCHANGED <<escrows, escrow_activities>>
                /\ ~Exists(escrows, id) =>
                      /\ resp'.code = 404
                      /\ UNCHANGED <<escrows, escrow_activities>>
                /\ (Exists(escrows, id) /\ escrows[id].sme_id = actor
                        /\ fail = "none") =>
                      /\ resp'.code = 200
                      /\ escrows'[id].status = "invited"
                      /\ escrows'[id].invite_sent_at = TRUE]_vars

\* the ids of the rows of a pending-invite list
ListedIds(invites) == {invites[i].id : i \in DOMAIN invites}

(* C22: listPendingInvites(email) returns exactly the escrows with
   customer_email = email, customer_id null and status draft or invited, and
   an escrow whose invite has been accepted is in no user's pending-invite
   list, whatever operations followed the acceptance *)
AcceptedNeverPending ==
    [][/\ \A e \in 1 .. Len(escrows'), u \in Users :
            escrows'[e].invite_accepted_at = TRUE =>
                e \notin ListedIds(PendingInvites(EmailOf(u)))'
       /\ resp'.op = "invites" =>
            \A actor \in Users :
                ListPendingInvites(actor, "none") =>
                    ListedIds(resp'.invites) =
                        {e \in EscrowRows :
                            /\ escrows[e].customer_email = EmailOf(actor)
                            /\ escrows[e].customer_id = Null
                            /\ escrows[e].status \in {"draft", "invited"}}]_vars

\* pending invites were listed while an escrow that had been accepted and
\* then invited again was in status invited, and the list was empty
InvitedAgainNotListed ==
    /\ resp = InvitesResponse(<<>>)
    /\ \E e \in EscrowRows :
        /\ escrows[e].invite_accepted_at = TRUE
        /\ escrows[e].status = "invited"

\* the step changes a field of escrow e or of one of its milestones
Changed(e) ==
    \/ escrows'[e] # escrows[e]
    \/ \E m \in MilestonesOf(e) : escrow_milestones'[m] # escrow_milestones[m]

\* actor is the owner of escrow e, or its invited customer: the user with the
\* escrow's customer_email before acceptance, the customer_id after
Party(actor, e) ==
    \/ escrows[e].sme_id = actor
    \/ IF escrows[e].customer_id = Null
       THEN EmailOf(actor) = escrows[e].customer_email
       ELSE escrows[e].customer_id = actor

\* actor holds the given role towards escrow e
InRole(actor, e, role) ==
    CASE role = "sme" -> escrows[e].sme_id = actor
      [] role = "customer" -> escrows[e].customer_id = actor
      [] role = "invited" -> EmailOf(actor) = escrows[e].customer_email
      [] role = "nobody" -> FALSE

\* a call by actor changes an escrow only if actor is a party to it in the given role
OnlyBy(actor, role) ==
    IF actor = Anon
    THEN UNCHANGED <<escrows, escrow_milestones, escrow_activities>>
    ELSE \A e \in EscrowRows : Changed(e) => (Party(actor, e) /\ InRole(actor, e, role))

(* C23: a request without a valid bearer credential changes no state, and an
   authenticated user who is neither the escrow's sme_id nor its invited
   customer changes no field of the escrow or of its milestones through any
   operation; sendInvite and submitMilestone change an escrow only for its
   SME, deposit, approveMilestone and rejectMilestone only for its accepted
   customer, acceptInvite only for the invited customer *)
OnlyPartiesChange ==
    [][<<escrows, escrow_milestones, escrow_activities>>'
            # <<escrows, escrow_milestones, escrow_activities>> =>
       /\ resp'.op = "create" =>
            \A actor \in Actors, customer_email \in CustomerEmails,
               total_amount \in Totals, milestones \in MilestoneInputs,
               fail \in CreateFails :
                Create(actor, customer_email, total_amount, milestones, fail) =>
                    OnlyBy(actor, "nobody")
       /\ resp'.op = "invite" =>
            \A actor \in Actors, id \in EscrowIds, fail \in Fails :
                Invite(actor, id, fail) => OnlyBy(actor, "sme")
       /\ resp'.op = "invites" =>
            \A actor \in Actors, fail \in Fails :
                ListPendingInvites(actor, fail) => OnlyBy(actor, "nobody")
       /\ resp'.op = "accept" =>
            \A actor \in Actors, token \in EscrowIds, fail \in Fails :
                AcceptInvite(actor, token, fail) => OnlyBy(actor, "invited")
       /\ resp'.op = "deposit" =>
            \A actor \in Actors, id \in EscrowIds, fail \in Fails :
                Deposit(actor, id, fail) => OnlyBy(actor, "customer")
       /\ resp'.op = "submit" =>
            \A actor \in Actors, id \in MilestoneIds, evidence \in Evidence,
               fail \in Fails :
                SubmitMilestone(actor, id, evidence, fail) => OnlyBy(actor, "sme")
       /\ resp'.op = "approve" =>
            \A actor \in Actors, id \in MilestoneIds, fail \in ApproveFails :
                ApproveMilestone(actor, id, fail) => OnlyBy(actor, "customer")
       /\ resp'.op = "reject" =>
            \A actor \in Actors, id \in MilestoneIds, rejection_reason \in Reasons,
               fail \in Fails :
                RejectMilestone(actor, id, rejection_reason, fail) =>
                    OnlyBy(actor, "customer")]_vars

\* a user who is not the customer of an active escrow was refused the approval
\* of its submitted milestone
StrangerRefusedApproval ==
    /\ resp = Response("approve", 403)
    /\ \E id \in MilestoneRows :
        /\ escrow_milestones[id].status = "submitted"
        /\ escrows[escrow_milestones[id].escrow_id].customer_id # Null
        /\ escrows[escrow_milestones[id].escrow_id].status = "active"

(* C24: the escrow activity log is append-only: in every step of every
   operation the previous sequence of activity rows is a prefix of the new
   one; no operation updates or deletes an existing activity row *)
LogAppendOnly ==
    [][/\ Len(escrow_activities') >= Len(escrow_activities)
       /\ SubSeq(escrow_activities', 1, Len(escrow_activities)) = escrow_activities]_vars

\* the log has grown to its bound: it starts with the create and invite rows
\* and its latest row is a submission
LogOfFiveKept ==
    /\ Len(escrow_activities) = MaxLog
    /\ escrow_activities[1].action_type = "escrow_created"
    /\ escrow_activities[2].action_type = "invite_sent"
    /\ escrow_activities[Len(escrow_activities)].action_type = "milestone_submitted"

(* C25: fundLoan succeeds only when the status it reads from the loan is
   requested or approved, and then sets lender_id = actor and status = funded;
   on a loan in any other status, funded in particular, it is answered 400
   with current_status equal to the loan's status and leaves the loan
   (lender_id, status, funded_at) unchanged *)
FundContract ==
    [][/\ \A s \in Slots, actor \in Users, id \in DOMAIN loans :
            FundFetch(s, actor, id) =>
                IF loans[id].status \in {"requested", "approved"}
                THEN reviews'[s].pc = "fetched" /\ reviews'[s].status = loans[id].status
                ELSE /\ resp' = [op |-> "fund", code |-> 400,
                                 current_status |-> loans[id].status]
                     /\ reviews'[s].pc = "idle"
                     /\ UNCHANGED loans
       /\ \A s \in Slots, fail \in Fails :
            FundWrite(s, fail) =>
                LET id == reviews[s].id
                IN  /\ reviews[s].status \in {"requested", "approved"}
                    /\ fail = "none" => resp'.code = 200
                    /\ IF resp'.code = 200
                       THEN /\ loans'[id].lender_id = reviews[s].actor
                            /\ loans'[id].status = "funded"
                            /\ loans'[id].funded_at = TRUE
                       ELSE UNCHANGED loans]_vars

\* a second funding of a funded loan was answered 400, current_status funded
FundRefusedOnFunded ==
    /\ resp = NotAvailable("funded")
    /\ \E id \in DOMAIN loans : loans[id].status = "funded" /\ loans[id].lender_id # Null

\* actor passes the role check of both families of lender decisions
IsLender(actor) == RoleOf(actor) = "lender"

(* C26: every lender approve-loan or reject-loan operation, of the
   /approve-loan/:id and /reject-loan/:id handlers and of the /loan/:id/approve
   and /loan/:id/reject handlers alike, changes a loan only when its status is
   requested; on a loan in status approved, rejected, funded or active it is
   answered 400 with the current status and leaves the loan (status,
   lender_id, notes) unchanged *)
DecideOnlyRequested ==
    [][/\ \A kind \in Kinds, actor \in Users, id \in DOMAIN loans, notes \in Notes :
            (/\ IsLender(actor)
             /\ ~(kind = "reject" /\ notes = "")
             /\ loans[id].status # "requested"
             /\ ReviewFetch("a", kind, actor, id, notes)) =>
                /\ resp' = [op |-> kind, code |-> 400,
                            currentStatus |-> loans[id].status]
                /\ UNCHANGED loans
       /\ \A fail \in Fails :
            ReviewWrite("a", fail) => reviews["a"].status = "requested"
       /\ \A kind \in Kinds, actor \in Users, id \in DOMAIN loans,
             rejection_reason \in Notes, fail \in Fails :
            (/\ IsLender(actor)
             /\ loans[id].status # "requested"
             /\ LenderDecide(kind, actor, id, rejection_reason, fail)) =>
                /\ resp'.code = 400
                /\ UNCHANGED loans]_vars

(* C27: every lender approve-loan or reject-loan operation is permitted
   exactly for actors whose profile role is lender or admin: for those roles
   the role check passes, and for every other role the call is answered 403
   and changes no loan *)
DecideRoleGate ==
    [][/\ \A kind \in Kinds, actor \in Users, id \in LoanIds, notes \in Notes :
            ReviewFetch("a", kind, actor, id, notes) =>
                IF RoleOf(actor) \in {"lender", "admin"}
                THEN reviews'["a"].pc = "fetched" \/ resp'.code # 403
                ELSE resp' = Response(kind, 403) /\ UNCHANGED loans
       /\ \A kind \in Kinds, actor \in Users, id \in LoanIds,
             rejection_reason \in Notes, fail \in Fails :
            LenderDecide(kind, actor, id, rejection_reason, fail) =>
                IF RoleOf(actor) \in {"lender", "admin"}
                THEN resp'.code # 403
                ELSE resp'.code = 403 /\ UNCHANGED loans]_vars

\* what C28 allows a loan request to do: create a loan, requested and of the
\* actor, only for an asset the actor owns and positive amount and term;
\* otherwise fail and create nothing
RequestOutcome(actor, asset_id, amount, term_months) ==
    IF /\ Authenticated(actor)
       /\ OwnsAsset(actor, asset_id)
       /\ Greater(parseFloat(amount), 0)
       /\ Greater(parseFloat(term_months), 0)
    THEN \/ UNCHANGED loans
         \/ /\ Len(loans') = Len(loans) + 1
            /\ loans'[Len(loans')].status = "requested"
            /\ loans'[Len(loans')].sme_id = actor
    ELSE /\ resp'.code \notin {200, 201}
         /\ UNCHANGED loans

(* C28: requestLoan creates a loan, with status requested and sme_id = actor,
   only when the referenced asset exists and is owned by the actor and
   amount_requested > 0 and term_months > 0; otherwise it fails and creates no
   loan row; this for both loan-request handlers of the source *)
RequestNeedsOwnedAsset ==
    [][/\ resp'.op = "request" =>
            \A actor \in Actors, asset_id \in AssetInputs,
               amount_requested \in RequestAmounts, term_months \in RequestTerms :
                RequestLoan(actor, asset_id, amount_requested, NullNumber,
                            term_months, "none") =>
                    RequestOutcome(actor, asset_id, amount_requested, term_months)
       /\ resp'.op = "request-owned" =>
            \A actor \in Actors, asset_id \in AssetInputs,
               amount \in RequestAmounts, term_months \in RequestTerms,
               fail \in {"none", "insert"} :
                RequestOwnedLoan(actor, asset_id, amount, term_months, fail) =>
                    RequestOutcome(actor, asset_id, amount, term_months)]_vars

(* C29: createAsset answers the caller as soon as the asset row is inserted,
   with 201 and status pending, while the tokenization is still outstanding;
   whatever the background tokenization does afterwards, it sends nothing to
   the caller: the response stays the 201 with status pending *)
AnsweredBeforeTokenization ==
    [][/\ Len(assets') > Len(assets) =>
            LET id == Len(assets')
            IN  /\ resp' = [op |-> "create-asset", code |-> 201, id |-> id,
                            status |-> "pending"]
                /\ assets'[id].status = "pending"
                /\ tokenizations'[id].pc = "creating"
       /\ \A id \in DOMAIN tokenizations :
            tokenizations'[id] # tokenizations[id] => resp' = resp]_vars

\* the tokenization of an asset failed after its creation had been answered
\* with 201 and status pending, and that answer is still the last one sent
FailedAfterAnswer ==
    /\ resp = [op |-> "create-asset", code |-> 201, id |-> 1, status |-> "pending"]
    /\ Len(tokenizations) >= 1
    /\ tokenizations[1].pc = "caught"
    /\ tokenizations[1].error = "create failed"

\* the asset row carries the chain identifiers its tokenization returned
CarriesChainIds(id) ==
    /\ id \in DOMAIN tokenizations
    /\ tokenizations[id].result # NoResult
    /\ assets[id].blockchain_asset_id = tokenizations[id].result.assetId
    /\ assets[id].transaction_hash = tokenizations[id].result.transactionHash
    /\ assets[id].block_number = tokenizations[id].result.blockNumber

\* the tokenization of the asset has failed: the create step or the notify
\* rejected, or the follow-up update did not store the identifiers
TokenizationFailed(id) ==
    /\ id \in DOMAIN tokenizations
    /\ \/ tokenizations[id].error # Null
       \/ tokenizations[id].pc \in {"updated", "settled"} /\ ~CarriesChainIds(id)

\* the asset row has status error and an error message
ErrorRecorded(id) ==
    /\ id \in DOMAIN assets
    /\ assets[id].status = "error"
    /\ assets[id].error_message # Null

(* C30: if the background tokenization started by createAsset fails (the
   create step, the follow-up asset update, or the oracle notify), then
   eventually the asset row has status = error with the error message
   recorded; if it succeeds, eventually the asset row carries the returned
   blockchain_asset_id, transaction_hash and block_number, and the oracle
   notify is issued only after that update *)
TokenizationOutcomeRecorded ==
    /\ \A id \in 1 .. MaxAssets :
        TokenizationFailed(id) ~> ErrorRecorded(id)
    /\ \A id \in 1 .. MaxAssets :
        (id \in DOMAIN tokenizations /\ tokenizations[id].pc = "then") ~>
            (CarriesChainIds(id) \/ TokenizationFailed(id))
    /\ [](\A id \in DOMAIN tokenizations :
            tokenizations[id].notified =>
                tokenizations[id].pc \in {"settled", "catch", "caught"})

\* the value range the three asset types are given
InTypeRange(type, value) ==
    CASE type = "deposit" -> value >= 1000 /\ value <= 1000000
      [] type = "purchase_order" -> value >= 5000 /\ value <= 5000000
      [] type = "invoice" -> value >= 1000 /\ value <= 2000000
      [] OTHER -> FALSE

\* the asset meets every criterion of the oracle
MeetsCriteria(asset) ==
    /\ asset.description \notin {Null, ""}
    /\ asset.value \notin {NullNumber, 0}
    /\ InTypeRange(asset.type, asset.value)
    /\ Len(asset.description) >= 10

OracleAnswered == resp.op = "oracle"

(* C31: the oracle returns verdict verified (confidence 0.95, risk low, no
   error) exactly when the asset has a non-empty description and value, its
   value lies in the inclusive range of its type (deposit 1000..1000000,
   purchase_order 5000..5000000, invoice 1000..2000000) and its description
   has at least 10 characters; in every other case it returns
   verification_failed (confidence 0.45, risk high) with an error message *)
OracleVerdict ==
    OracleAnswered /\ resp.asset.type \in {"deposit", "purchase_order", "invoice"} =>
        IF MeetsCriteria(resp.asset)
        THEN /\ resp.verification.status = "verified"
             /\ resp.verification.data.confidence = 95
             /\ resp.verification.data.riskScore = "low"
             /\ resp.verification.error = Null
        ELSE /\ resp.verification.status = "verification_failed"
             /\ resp.verification.data.confidence = 45
             /\ resp.verification.data.riskScore = "high"
             /\ resp.verification.error # Null

\* an invoice of 50000 with a description of 20 characters was verified
InvoiceVerified ==
    /\ OracleAnswered
    /\ resp.asset = [type |-> "invoice", value |-> 50000,
                     description |-> "an invoice for goods"]
    /\ resp.verification.status = "verified"

\* the call gets as far as the oracle: the caller is known, the asset exists
\* and the caller owns it or is an admin
ReachesVerification(actor, assetId) ==
    /\ actor \in Users
    /\ assetId \in DOMAIN assets
    /\ (assets[assetId].user_id = actor \/ RoleOf(actor) = "admin")

\* the table has grown by exactly one row, which records the verification of
\* the asset as it was
OneEntryAppended(assetId) ==
    LET verdict == performMockVerification(assets[assetId])
        entry == verification_logs'[Len(verification_logs')]
    IN  /\ Len(verification_logs') = Len(verification_logs) + 1
        /\ SubSeq(verification_logs', 1, Len(verification_logs)) = verification_logs
        /\ entry.asset_id = assetId
        /\ entry.verification_method = "mock_oracle"
        /\ entry.status = (IF verdict.status = "verified" THEN "success" ELSE "failed")
        /\ entry.verification_data.checks = verdict.data.checks
        /\ entry.error_message = verdict.error

(* C32: every invocation of verify-asset that reaches the verification step
   appends exactly one entry for that asset id to the verification log,
   recording the method, the verdict (success for verified, failed
   otherwise), the raw checks and any error, whether the verdict is verified
   or verification_failed and whether or not the asset update that follows
   succeeds (the store accepting the log insert); log entries are never
   updated or deleted *)
EveryVerificationLogged ==
    [][/\ \A actor \in Actors, assetId \in AssetIds, fail \in {"none", "update"} :
            VerifyAsset(actor, assetId, fail) /\ ReachesVerification(actor, assetId)
                => OneEntryAppended(assetId)
       /\ Len(verification_logs') >= Len(verification_logs)
       /\ SubSeq(verification_logs', 1, Len(verification_logs)) = verification_logs]_vars

\* one of the two fields of the asset has just become verified
BecameVerified(id) ==
    \/ assets[id].status # "verified" /\ assets'[id].status = "verified"
    \/ /\ assets[id].verification_status # "verified"
       /\ assets'[id].verification_status = "verified"

(* C39: an asset's status or verification_status becomes verified only
   through an operation issued by the asset's owner or by an admin: a call of
   either verification route by an authenticated user who is neither leaves
   both fields of the asset as they were *)
OnlyOwnerOrAdminVerifies ==
    [][assets' # assets =>
        \A actor \in Users, id \in AssetIds, fail \in {"none", "update", "log"} :
            (VerifyAsset(actor, id, fail) \/ ManualVerify(actor, id, fail)) =>
                \A a \in DOMAIN assets :
                    BecameVerified(a) =>
                        (assets[a].user_id = actor \/ RoleOf(actor) = "admin")]_vars

\* the request was answered with a success code
ReportsSuccess == resp'.code \in {200, 201}

\* exactly one row was appended, for this escrow, this actor and this action
ActivityAppended(escrow_id, actor, action_type) ==
    LET row == escrow_activities'[Len(escrow_activities')]
    IN  /\ Len(escrow_activities') = Len(escrow_activities) + 1
        /\ SubSeq(escrow_activities', 1, Len(escrow_activities)) = escrow_activities
        /\ row.escrow_id = escrow_id
        /\ row.user_id = actor
        /\ row.action_type = action_type

\* a success has its row, a failure has none
SuccessLogged(escrow_id, actor, action_type) ==
    IF ReportsSuccess THEN ActivityAppended(escrow_id, actor, action_type)
    ELSE escrow_activities' = escrow_activities

\* the escrow of a milestone, 0 when there is no such milestone
EscrowOfMilestone(id) ==
    IF id \in DOMAIN escrow_milestones THEN escrow_milestones[id].escrow_id ELSE 0

(* C33: every escrow or milestone operation that reports success (create,
   sendInvite, acceptInvite, deposit, submitMilestone, approveMilestone,
   rejectMilestone) has appended exactly one activity row with the matching
   action_type, the right escrow_id and user_id = actor, and no failed
   operation appends one, also when an individual store write fails *)
EverySuccessLogged ==
    [][/\ \A actor \in Actors, fail \in CreateFails \cup {"log"},
            customer_email \in CustomerEmails, total_amount \in Totals,
            milestones \in LoggedMilestoneInputs :
            Create(actor, customer_email, total_amount, milestones, fail) =>
                SuccessLogged(Len(escrows'), actor, "escrow_created")
       /\ \A actor \in Actors, id \in EscrowIds, fail \in LogFails :
            /\ Invite(actor, id, fail) => SuccessLogged(id, actor, "invite_sent")
            /\ AcceptInvite(actor, id, fail) =>
                    SuccessLogged(ByToken(id), actor, "invite_accepted")
            /\ Deposit(actor, id, fail) => SuccessLogged(id, actor, "funds_deposited")
       /\ \A actor \in Actors, id \in MilestoneIds, fail \in LogFails \cup {"update2"} :
            /\ \A evidence \in Evidence :
                SubmitMilestone(actor, id, evidence, fail) =>
                    SuccessLogged(EscrowOfMilestone(id), actor, "milestone_submitted")
            /\ ApproveMilestone(actor, id, fail) =>
                    SuccessLogged(EscrowOfMilestone(id), actor, "milestone_approved")
            /\ \A rejection_reason \in Reasons :
                RejectMilestone(actor, id, rejection_reason, fail) =>
                    SuccessLogged(EscrowOfMilestone(id), actor, "milestone_rejected")]_vars

\* the escrow insert of this create request is stored and its milestone batch
\* insert fails
BatchFails(actor, total_amount, milestones, fail) ==
    /\ actor \in Users
    /\ CreateValidation(milestones) = 0
    /\ fail # "insert"
    /\ \/ fail = "insert2"
       \/ ~BatchAccepted(milestonesData(Len(escrows) + 1, total_amount, milestones[1]))

\* escrow e is in status draft, with no milestone and no escrow_created row
Orphan(e) ==
    /\ e \in DOMAIN escrows
    /\ escrows[e].status = "draft"
    /\ \A m \in DOMAIN escrow_milestones : escrow_milestones[m].escrow_id # e
    /\ \A a \in DOMAIN escrow_activities : escrow_activities[a].escrow_id # e

(* C34: if, during create, the milestone batch insert fails after the escrow
   insert succeeded, create reports an error (500) and the escrow row stays
   persisted in status draft with no milestones and no escrow_created
   activity (an orphan escrow); create performs no cleanup *)
OrphanAfterBatchFailure ==
    [][resp'.op = "create" =>
        \A actor \in Actors, customer_email \in CustomerEmails, total_amount \in Totals,
              milestones \in MilestoneInputs, fail \in CreateFails :
              Create(actor, customer_email, total_amount, milestones, fail)
              /\ BatchFails(actor, total_amount, milestones, fail) =>
                  /\ resp' = Response("create", 500)
                  /\ Len(escrows') = Len(escrows) + 1
                  /\ escrows'[Len(escrows')].sme_id = actor
                  /\ escrow_milestones' = escrow_milestones
                  /\ escrow_activities' = escrow_activities
                  /\ escrows'[Len(escrows')].status = "draft"
                  /\ \A m \in DOMAIN escrow_milestones' :
                        escrow_milestones'[m].escrow_id # Len(escrows')
                  /\ \A a \in DOMAIN escrow_activities' :
                        escrow_activities'[a].escrow_id # Len(escrows')]_vars

\* a create request was answered 500 and left an escrow without milestones
OrphanLeft ==
    /\ resp = Response("create", 500)
    /\ Len(escrows) = 1
    /\ Orphan(1)

(* C35: approveMilestone is all-or-nothing with respect to store failures:
   whenever the call ends with an error response, neither the milestone's
   status nor the escrow's released_amount has changed, so the approval can
   be retried *)
ApproveAllOrNothing ==
    [][resp'.op = "approve" /\ resp'.code >= 400 =>
        \A actor \in Actors, id \in MilestoneIds, fail \in ApproveFails :
            ApproveMilestone(actor, id, fail) =>
                /\ \A m \in DOMAIN escrow_milestones :
                      escrow_milestones'[m].status = escrow_milestones[m].status
                /\ \A e \in DOMAIN escrows :
                      escrows'[e].released_amount = escrows[e].released_amount]_vars

\* the approved milestones of escrow e
ApprovedOf(e) == {m \in MilestonesOf(e) : escrow_milestones[m].status = "approved"}

(* C36: in every state in which no escrow or milestone request is in flight,
   an escrow's released_amount equals the sum of the amount values of those
   of its milestones whose status is approved, after any sequence and any
   interleaving of submitMilestone, approveMilestone and rejectMilestone
   calls *)
ReleasedIsSumOfApproved ==
    (\A s \in Slots : ~InFlight(s)) =>
        \A e \in EscrowRows :
            escrows[e].released_amount =
                SumOver(escrow_milestones, "amount", ApprovedOf(e))

\* the funds_deposited rows of escrow e: one is appended by every deposit call
\* that is answered 200
DepositsOf(e) ==
    {a \in DOMAIN escrow_activities :
        /\ escrow_activities[a].escrow_id = e
        /\ escrow_activities[a].action_type = "funds_deposited"}

(* C37: for every escrow, at most one deposit call ever succeeds and at most
   one funds_deposited activity is ever appended, over any sequence and any
   interleaving of sendInvite, acceptInvite and deposit calls, two
   concurrent deposit calls by the customer included *)
OneDepositPerEscrow ==
    \A e \in EscrowRows : Cardinality(DepositsOf(e)) <= 1

(* C38: a loan that has reached status rejected is never funded afterwards,
   and a loan that has reached status funded keeps status funded and its
   lender_id forever, under any sequence of fundLoan and lender approve /
   reject calls through any of the exposed handlers: no step takes a
   rejected loan to funded, and no step changes the status or the lender_id
   of a funded loan *)
RejectedAndFundedAreFinal ==
    [][\A id \in DOMAIN loans :
          /\ loans[id].status = "rejected" => loans'[id].status # "funded"
          /\ loans[id].status = "funded" =>
                /\ loans'[id].status = "funded"
                /\ loans'[id].lender_id = loans[id].lender_id]_vars

====
